---------------------------- MODULE Spec2Model ----------------------------
(***************************************************************************)
(* Model of the bibliographic metadata extractor of difz/paper-agent       *)
(* (src/agent/pdf_metadata.py) and of its per-user store                   *)
(* (src/agent/user_store_manager.py).                                      *)
(*                                                                         *)
(* A Python str is a sequence of one-character strings.  Characters that   *)
(* are not ASCII are written as named atoms: "sup1" is the superscript     *)
(* one, "dagger" the dagger sign, and so on.  An Optional value is a       *)
(* sequence of length 0 (None) or 1 (the value), so that None and the      *)
(* empty string stay different values, as they are in Python.              *)
(***************************************************************************)
EXTENDS Integers, Sequences, FiniteSets, TLC

VARIABLES
  pc,        \* position of the running extract_metadata call, or "idle"
  doc,       \* the document behind pdf_path, as PdfReader will see it
  metadata,  \* the metadata dict of the running call (lines 26-35)
  raised,    \* the exception in flight, None when there is none
  probe      \* the last direct call of a helper method: [fn, arg, ret]

vars == <<pc, doc, metadata, raised, probe>>

None == <<>>
Some(v) == <<v>>

(***************************************************************************)
(* Character classes of Python's str methods and of the re module.         *)
(***************************************************************************)
Upper ==
  {"A","B","C","D","E","F","G","H","I","J","K","L","M",
   "N","O","P","Q","R","S","T","U","V","W","X","Y","Z"}

Lower ==
  {"a","b","c","d","e","f","g","h","i","j","k","l","m",
   "n","o","p","q","r","s","t","u","v","w","x","y","z"}

Digit == {"0","1","2","3","4","5","6","7","8","9"}

\* \s of re, and what str.strip() removes
Whitespace == {" ", "\n", "\t", "\r"}

\* \w of re
WordChar == Upper \cup Lower \cup Digit \cup {"_"}

DigitVal(c) ==
  CASE c = "0" -> 0 [] c = "1" -> 1 [] c = "2" -> 2 [] c = "3" -> 3
    [] c = "4" -> 4 [] c = "5" -> 5 [] c = "6" -> 6 [] c = "7" -> 7
    [] c = "8" -> 8 [] c = "9" -> 9

\* int() of a string of four decimal digits
Int4(s) ==
  1000 * DigitVal(s[1]) + 100 * DigitVal(s[2]) + 10 * DigitVal(s[3]) + DigitVal(s[4])

Min(S) == CHOOSE x \in S : \A y \in S : x <= y
Max(S) == CHOOSE x \in S : \A y \in S : x >= y

(***************************************************************************)
(* str methods.                                                            *)
(***************************************************************************)
\* s[:n]
Prefix(s, n) == SubSeq(s, 1, IF Len(s) < n THEN Len(s) ELSE n)

\* s[i:] with i counted from 1
From(s, i) == SubSeq(s, i, Len(s))

\* str.strip()
Strip(s) ==
  LET keep == {i \in 1..Len(s) : s[i] \notin Whitespace}
  IN  IF keep = {} THEN <<>> ELSE SubSeq(s, Min(keep), Max(keep))

\* str.split(sep) for a one-character separator
RECURSIVE Split(_, _)
Split(s, sep) ==
  LET at == {i \in 1..Len(s) : s[i] = sep}
  IN  IF at = {} THEN <<s>>
      ELSE <<SubSeq(s, 1, Min(at) - 1)>> \o Split(From(s, Min(at) + 1), sep)

\* str.replace(old, new) for one-character old and new
Replace(s, old, new) == [i \in 1..Len(s) |-> IF s[i] = old THEN new ELSE s[i]]

\* str.isupper(): at least one cased character and no lower-case one
IsUpper(s) ==
  /\ \E i \in 1..Len(s) : s[i] \in Upper \cup Lower
  /\ \A i \in 1..Len(s) : s[i] \notin Lower

\* str.lower()
LowerOf(c) ==
  CASE c = "A" -> "a" [] c = "B" -> "b" [] c = "C" -> "c" [] c = "D" -> "d"
    [] c = "E" -> "e" [] c = "F" -> "f" [] c = "G" -> "g" [] c = "H" -> "h"
    [] c = "I" -> "i" [] c = "J" -> "j" [] c = "K" -> "k" [] c = "L" -> "l"
    [] c = "M" -> "m" [] c = "N" -> "n" [] c = "O" -> "o" [] c = "P" -> "p"
    [] c = "Q" -> "q" [] c = "R" -> "r" [] c = "S" -> "s" [] c = "T" -> "t"
    [] c = "U" -> "u" [] c = "V" -> "v" [] c = "W" -> "w" [] c = "X" -> "x"
    [] c = "Y" -> "y" [] c = "Z" -> "z" [] OTHER -> c

ToLower(s) == [i \in 1..Len(s) |-> LowerOf(s[i])]

\* sub in s (the in operator of str)
Contains(s, sub) ==
  \E i \in 1..(Len(s) - Len(sub) + 1) : SubSeq(s, i, i + Len(sub) - 1) = sub

\* str.startswith(sub)
StartsWith(s, sub) == Len(s) >= Len(sub) /\ SubSeq(s, 1, Len(sub)) = sub

\* the elements of a list, as a set
Range(f) == {f[i] : i \in DOMAIN f}

\* os.path.basename(path)
BaseName(path) ==
  LET at == {i \in 1..Len(path) : path[i] = "/"}
  IN  IF at = {} THEN path ELSE From(path, Max(at) + 1)

\* os.path.splitext(name)[0]: cut at the last dot, unless only dots precede it
SplitExtRoot(name) ==
  LET dots == {i \in 1..Len(name) : name[i] = "."}
  IN  IF dots = {} THEN name
      ELSE LET d == Max(dots)
           IN  IF \E j \in 1..(d - 1) : name[j] # "." THEN SubSeq(name, 1, d - 1)
               ELSE name

\* truth value of a str or list: not empty
Truthy(v) == v # <<>>

\* truth value of an Optional str, list or non-zero int
TruthyOpt(o) == o # None /\ o[1] # <<>>

(***************************************************************************)
(* PDFMetadataExtractor._parse_authors (lines 98-120).                     *)
(***************************************************************************)
\* [\d\*†‡§¹²³⁴⁵⁶⁷⁸⁹⁰,] of line 115
TrailingMarker ==
  Digit \cup {"*", "dagger", "ddagger", "section", "sup1", "sup2", "sup3", "sup4",
              "sup5", "sup6", "sup7", "sup8", "sup9", "sup0", ","}

\* A split that does not know the '&': [;,]|\sand\s|\n
DelimLenAtNoAmpersand(s, i) ==
  IF s[i] \in {";", ","} THEN 1
  ELSE IF /\ i + 4 <= Len(s)
          /\ s[i] \in Whitespace
          /\ SubSeq(s, i + 1, i + 3) = <<"a", "n", "d">>
          /\ s[i + 4] \in Whitespace
       THEN 5
  ELSE IF s[i] = "\n" THEN 1
  ELSE 0

\* Length of the match of [;,]|\sand\s|\s&\s|\n that starts at s[i]; 0 when
\* none does.  The alternatives are tried in the order they are written.
DelimLenAt(s, i) ==
  IF s[i] \in {";", ","} THEN 1
  ELSE IF /\ i + 4 <= Len(s)
          /\ s[i] \in Whitespace
          /\ SubSeq(s, i + 1, i + 3) = <<"a", "n", "d">>
          /\ s[i + 4] \in Whitespace
       THEN 5
  ELSE IF i + 2 <= Len(s) /\ s[i] \in Whitespace /\ s[i + 1] = "&" /\ s[i + 2] \in Whitespace
       THEN 3
  ELSE IF s[i] = "\n" THEN 1
  ELSE 0

\* re.split(r'[;,]|\sand\s|\s&\s|\n', s): cut at the leftmost match, go on
\* after it
RECURSIVE SplitAuthors(_)
SplitAuthors(s) ==
  LET at == {i \in 1..Len(s) : DelimLenAt(s, i) > 0}
  IN  IF at = {} THEN <<s>>
      ELSE LET i == Min(at)
           IN  <<SubSeq(s, 1, i - 1)>> \o SplitAuthors(From(s, i + DelimLenAt(s, i)))

\* Last index of the match of \s*[open][^close]*[close] that starts at s[i],
\* with an @ inside the brackets when needAt; 0 when there is no match.
GroupEnd(s, i, open, close, needAt) ==
  LET body == {j \in i..Len(s) : s[j] \notin Whitespace}
  IN  IF body = {} THEN 0
      ELSE LET j == Min(body)
               ends == {c \in (j + 1)..Len(s) : s[c] \in close}
           IN  IF s[j] \notin open \/ ends = {} THEN 0
               ELSE LET c == Min(ends)
                    IN  IF needAt /\ ~ \E k \in (j + 1)..(c - 1) : s[k] = "@"
                        THEN 0 ELSE c

\* re.sub(r'\s*[open][^close]*[close]', '', s)
RECURSIVE SubGroups(_, _, _, _)
SubGroups(s, open, close, needAt) ==
  LET at == {i \in 1..Len(s) : GroupEnd(s, i, open, close, needAt) > 0}
  IN  IF at = {} THEN s
      ELSE LET i == Min(at)
           IN  SubSeq(s, 1, i - 1)
                 \o SubGroups(From(s, GroupEnd(s, i, open, close, needAt) + 1),
                              open, close, needAt)

\* re.sub(r'[class]+$', '', s): drop the longest suffix made of class
SubTrailing(s, class) ==
  LET keep == {i \in 1..Len(s) : s[i] \notin class}
  IN  IF keep = {} THEN <<>> ELSE SubSeq(s, 1, Max(keep))

\* lines 109-115: the clean-up of one split token
CleanAuthor(author) ==
  LET a1 == Strip(author)
      a2 == SubGroups(a1, {"("}, {")"}, TRUE)
      a3 == SubGroups(a2, {"[", "("}, {"]", ")"}, FALSE)
  IN  Strip(SubTrailing(a3, TrailingMarker))

\* line 117: if author and len(author) > 2
KeepAuthor(author) == Len(author) > 2

_parse_authors(author_str) ==
  IF ~ Truthy(author_str) THEN <<>>
  ELSE LET authors == SplitAuthors(author_str)
       IN  SelectSeq([i \in 1..Len(authors) |-> CleanAuthor(authors[i])], KeepAuthor)

(***************************************************************************)
(* PDFMetadataExtractor._extract_year (lines 122-133).                     *)
(***************************************************************************)
YearLo == 1900
YearHi == 2100

\* The range test with its lower bound forgotten
YearBelowHi(year) == year <= YearHi

\* line 131: 1900 <= year <= 2100
YearInRange(year) == YearLo <= year /\ year <= YearHi

_extract_year(date_str) ==
  IF ~ Truthy(date_str) THEN None
  ELSE LET at == {i \in 1..(Len(date_str) - 3) :
                    \A k \in 0..3 : date_str[i + k] \in Digit}
       IN  IF at = {} THEN None
           ELSE LET year == Int4(SubSeq(date_str, Min(at), Min(at) + 3))
                IN  IF YearInRange(year) THEN Some(year) ELSE None

(***************************************************************************)
(* PDFMetadataExtractor._extract_title_from_text (lines 135-146).          *)
(***************************************************************************)
TitleScanLines == 10
TitleMinLen == 10

\* line 144
IsTitleLine(line) == Len(line) > TitleMinLen /\ ~ IsUpper(line)

_extract_title_from_text(text) ==
  IF ~ Truthy(text) THEN None
  ELSE LET lines == Prefix(Split(text, "\n"), TitleScanLines)
           at == {i \in 1..Len(lines) : IsTitleLine(Strip(lines[i]))}
       IN  IF at = {} THEN None ELSE Some(Strip(lines[Min(at)]))

(***************************************************************************)
(* PDFMetadataExtractor._extract_year_from_text (lines 258-270).           *)
(***************************************************************************)
YearScanChars == 1000

\* \b(19\d{2}|20\d{2})\b matches s[i..i+3]
YearMatchAt(s, i) ==
  /\ i + 3 <= Len(s)
  /\ SubSeq(s, i, i + 1) \in {<<"1", "9">>, <<"2", "0">>}
  /\ s[i + 2] \in Digit
  /\ s[i + 3] \in Digit
  /\ (i = 1 \/ s[i - 1] \notin WordChar)
  /\ (i + 3 = Len(s) \/ s[i + 4] \notin WordChar)

\* re.findall of that pattern in s[from..]: the matches from left to right,
\* the scan going on after each match
RECURSIVE FindAllYears(_, _)
FindAllYears(s, from) ==
  LET at == {i \in from..Len(s) : YearMatchAt(s, i)}
  IN  IF at = {} THEN <<>>
      ELSE <<SubSeq(s, Min(at), Min(at) + 3)>> \o FindAllYears(s, Min(at) + 4)

_extract_year_from_text(text) ==
  IF ~ Truthy(text) THEN None
  ELSE LET matches == FindAllYears(Prefix(text, YearScanChars), 1)
           years == {Int4(matches[i]) : i \in 1..Len(matches)}
           kept == {y \in years : YearInRange(y)}
       IN  IF kept = {} THEN None ELSE Some(Max(kept))

(***************************************************************************)
(* PDFMetadataExtractor._extract_doi (lines 272-281).                      *)
(***************************************************************************)
\* Last index of the match of 10\.\d{4,}/[^\s]+ that starts at s[i]; 0 when
\* there is none.  \d{4,} is greedy and a digit is never a slash, so the
\* slash must follow the whole run of digits.
DoiEnd(s, i) ==
  IF ~ (i + 2 <= Len(s) /\ SubSeq(s, i, i + 2) = <<"1", "0", ".">>) THEN 0
  ELSE LET nondig == {j \in (i + 3)..Len(s) : s[j] \notin Digit}
       IN  IF nondig = {} THEN 0
           ELSE LET sl == Min(nondig)
                    ws == {j \in (sl + 1)..Len(s) : s[j] \in Whitespace}
                    last == IF ws = {} THEN Len(s) ELSE Min(ws) - 1
                IN  IF sl - (i + 3) >= 4 /\ s[sl] = "/" /\ last > sl THEN last ELSE 0

_extract_doi(text) ==
  IF ~ Truthy(text) THEN None
  ELSE LET at == {i \in 1..Len(text) : DoiEnd(text, i) > 0}
       IN  IF at = {} THEN None
           ELSE Some(SubTrailing(SubSeq(text, Min(at), DoiEnd(text, Min(at))),
                                 {".", ",", ";", ")"}))


(***************************************************************************)
(* PDFMetadataExtractor._extract_authors_from_text (lines 148-256).        *)
(***************************************************************************)
StartLine == 3
ScanLines == 60
MaxLineLen == 200
CamelMinLen == 10
CamelMaxLen == 60
MaxAuthors == 10
CleanupLimit == 15
MinNameLen == 4

sDepartment ==
  <<"d","e","p","a","r","t","m","e","n","t">>
sDepartmentOf ==
  <<"d","e","p","a","r","t","m","e","n","t"," ","o","f">>
sUniversity ==
  <<"u","n","i","v","e","r","s","i","t","y">>
sCollege ==
  <<"c","o","l","l","e","g","e">>

\* lines 179-181
TitleWords1 ==
  {<<"M","a","c","h","i","n","e">>,
   <<"L","e","a","r","n","i","n","g">>,
   <<"S","y","s","t","e","m">>,
   <<"T","r","a","c","k">>,
   <<"E","n","a","b","l","e">>,
   <<"U","r","b","a","n">>,
   <<"M","o","b","i","l","i","t","y">>,
   <<"E","n","h","a","n","c","e","d">>,
   <<"R","e","a","l">>,
   <<"T","i","m","e">>,
   <<"S","m","a","r","t">>,
   <<"T","r","a","n","s","i","t">>,
   <<"B","u","s">>}

\* line 222
TitleWords2 ==
  {<<"S","y","s","t","e","m">>,
   <<"T","r","a","c","k">>,
   <<"E","n","a","b","l","e">>,
   <<"U","r","b","a","n">>,
   <<"M","o","b","i","l","i","t","y">>,
   <<"E","n","h","a","n","c","e","d">>,
   <<"R","e","a","l">>}

\* lines 249-251
FalsePositives ==
  {<<"A","b","s","t","r","a","c","t">>,
   <<"I","n","t","r","o","d","u","c","t","i","o","n">>,
   <<"K","e","y","w","o","r","d","s">>,
   <<"R","e","f","e","r","e","n","c","e","s">>,
   <<"A","c","k","n","o","w","l","e","d","g","m","e","n","t">>,
   <<"C","o","n","c","l","u","s","i","o","n">>,
   <<"R","e","s","u","l","t","s">>,
   <<"M","e","t","h","o","d","s">>,
   <<"M","a","c","h","i","n","e"," ","L","e","a","r","n","i","n","g">>,
   <<"A","r","t","i","f","i","c","i","a","l"," ","I","n","t","e","l","l","i","g","e","n","c","e">>,
   <<"D","e","e","p"," ","L","e","a","r","n","i","n","g">>}

\* Mrs?|Dr|Prof
Honorifics ==
  {<<"M","r">>,
   <<"M","r","s">>,
   <<"D","r">>,
   <<"P","r","o","f">>}

\* The look-ahead test left out: any next line will do
HasMarker1Any(next_line) == TRUE

\* lines 172-173: the look-ahead test of the first pass, on the stripped,
\* lower-cased next line
HasMarker1(next_line) ==
  \/ StartsWith(next_line, sDepartment)
  \/ Contains(next_line, sDepartmentOf)
  \/ Contains(next_line, sUniversity)
  \/ Contains(next_line, sCollege)

\* line 216: the look-ahead test of the second pass
HasMarker2(next_line) ==
  StartsWith(next_line, sDepartment) \/ Contains(next_line, sDepartmentOf)

\* s with a space inserted after each position of P
InsertAfter(s, P) ==
  LET before(i) == Cardinality({q \in P : q < i})
  IN  [k \in 1..(Len(s) + Cardinality(P \cap (1..Len(s)))) |->
         IF \E i \in 1..Len(s) : i + before(i) = k
         THEN s[CHOOSE i \in 1..Len(s) : i + before(i) = k]
         ELSE " "]

\* A de-concatenation that puts no space in
SplitCamelNoSpace(s) == s

\* re.sub(r'([a-z])([A-Z])', r'\1 \2', s)
SplitCamel(s) ==
  InsertAfter(s, {i \in 1..(Len(s) - 1) : s[i] \in Lower /\ s[i + 1] \in Upper})

\* re.sub(r'\.([A-Z])', r'. \1', s)
SpaceAfterDot(s) ==
  InsertAfter(s, {i \in 1..(Len(s) - 1) : s[i] = "." /\ s[i + 1] \in Upper})

\* re.sub(r'(^(?:Mrs?|Dr|Prof))\.([A-Z])', r'\1. \2', s): only the dot that
\* ends a leading honorific
SpaceAfterHonorific(s) ==
  InsertAfter(s, {Len(h) + 1 : h \in {g \in Honorifics :
                    /\ StartsWith(s, g)
                    /\ Len(s) >= Len(g) + 2
                    /\ s[Len(g) + 1] = "."
                    /\ s[Len(g) + 2] \in Upper}})

\* Number of fragments when s matches ^([A-Z][a-z]+)+$, else 0: only
\* letters, an upper-case one first, each upper-case one followed by a
\* lower-case one
CamelFragments(s) ==
  IF /\ s # <<>>
     /\ s[1] \in Upper
     /\ \A i \in 1..Len(s) : s[i] \in Upper \cup Lower
     /\ \A i \in 1..Len(s) : s[i] \in Upper => (i < Len(s) /\ s[i + 1] \in Lower)
  THEN Cardinality({i \in 1..Len(s) : s[i] \in Upper})
  ELSE 0

\* The CamelCase test with the two length bounds included
IsCamelNameInclusive(line) ==
  /\ CamelFragments(line) >= 2
  /\ CamelFragments(line) <= 6
  /\ CamelMinLen <= Len(line)
  /\ Len(line) <= CamelMaxLen

\* ^([A-Z][a-z]+){2,6}$ and 10 < len(line) < 60 (lines 176 and 218)
IsCamelName(line) ==
  /\ CamelFragments(line) >= 2
  /\ CamelFragments(line) <= 6
  /\ CamelMinLen < Len(line)
  /\ Len(line) < CamelMaxLen

\* Number of groups when s[i..] is made of groups \s{minWs,}[A-Z][a-z]+ and
\* nothing else, -1 when it is not
RECURSIVE NameGroups(_, _, _)
NameGroups(s, i, minWs) ==
  IF i > Len(s) THEN 0
  ELSE LET body == {j \in i..Len(s) : s[j] \notin Whitespace}
       IN  IF body = {} THEN -1
           ELSE LET j == Min(body)
                    stop == {k \in (j + 1)..Len(s) : s[k] \notin Lower}
                    e == IF stop = {} THEN Len(s) ELSE Min(stop) - 1
                IN  IF j - i < minWs \/ s[j] \notin Upper \/ e < j + 1 THEN -1
                    ELSE LET rest == NameGroups(s, e + 1, minWs)
                         IN  IF rest < 0 THEN -1 ELSE rest + 1

\* ^[A-Z]\.(?:\s*[A-Z][a-z]+){1,3}$ (lines 186 and 224)
IsInitialName(line) ==
  /\ Len(line) >= 2
  /\ line[1] \in Upper
  /\ line[2] = "."
  /\ NameGroups(line, 3, 0) \in 1..3

\* ^(?:Mrs?\.?|Dr\.?|Prof\.?)[A-Z] (line 192), and with \s* before the
\* capital when ws (line 229); a match of the beginning of the line only
IsHonorificName(line, ws) ==
  \E h \in Honorifics : \E dot \in {0, 1} :
    /\ StartsWith(line, h)
    /\ (dot = 1 => (Len(line) > Len(h) /\ line[Len(h) + 1] = "."))
    /\ LET rest == {j \in (Len(h) + dot + 1)..Len(line) : line[j] \notin Whitespace}
       IN  /\ rest # {}
           /\ line[Min(rest)] \in Upper
           /\ (ws \/ Min(rest) = Len(h) + dot + 1)

\* ^[A-Z][a-z]+(\s+[A-Z][a-z]+){1,4}$ (line 198)
IsSpacedName(line) ==
  LET stop == {k \in 2..Len(line) : line[k] \notin Lower}
      e == IF stop = {} THEN Len(line) ELSE Min(stop) - 1
  IN  /\ line # <<>>
      /\ line[1] \in Upper
      /\ e >= 2
      /\ NameGroups(line, e + 1, 1) \in 1..4

ContainsAny(name, words) == \E w \in words : Contains(name, w)

\* lines 175-199: what the first pass appends for a line whose next line
\* carries a marker; the empty list when it appends nothing
Candidate1(line) ==
  IF IsCamelName(line)
  THEN IF ContainsAny(SplitCamel(line), TitleWords1) THEN <<>>
       ELSE <<Strip(SplitCamel(line))>>
  ELSE IF IsInitialName(line) THEN <<Strip(SplitCamel(SpaceAfterDot(line)))>>
  ELSE IF IsHonorificName(line, FALSE)
       THEN <<Strip(SplitCamel(SpaceAfterHonorific(line)))>>
  ELSE IF IsSpacedName(line) THEN <<Strip(line)>>
  ELSE <<>>

\* lines 217-233: what the second pass appends for such a line
Candidate2(line) ==
  IF IsCamelName(line)
  THEN IF ContainsAny(SplitCamel(line), TitleWords2) THEN <<>>
       ELSE <<Strip(SplitCamel(line))>>
  ELSE IF IsInitialName(line) THEN <<Strip(SplitCamel(SpaceAfterDot(line)))>>
  ELSE IF IsHonorificName(line, TRUE) THEN <<Strip(SplitCamel(SpaceAfterDot(line)))>>
  ELSE <<>>

\* lines 161-203: the first pass from line k on (k counts from 1, the
\* code's i from 0), authors being the list so far
RECURSIVE Strategy1(_, _, _)
Strategy1(lines, k, authors) ==
  IF k > Len(lines) \/ k > ScanLines THEN authors
  ELSE LET line == Strip(lines[k])
       IN  IF line = <<>> \/ Len(line) > MaxLineLen
           THEN Strategy1(lines, k + 1, authors)
           ELSE LET found == IF k < Len(lines) /\ HasMarker1(ToLower(Strip(lines[k + 1])))
                             THEN Candidate1(line) ELSE <<>>
                    so_far == authors \o found
                IN  IF Len(so_far) >= MaxAuthors THEN so_far
                    ELSE Strategy1(lines, k + 1, so_far)

\* lines 208-233: the second pass from line k on
RECURSIVE Strategy2(_, _, _)
Strategy2(lines, k, authors) ==
  IF k > Len(lines) \/ k > ScanLines THEN authors
  ELSE LET line == Strip(lines[k])
           found == IF k < Len(lines) /\ HasMarker2(ToLower(Strip(lines[k + 1])))
                    THEN Candidate2(line) ELSE <<>>
       IN  Strategy2(lines, k + 1, authors \o found)

\* line 207: the second pass runs when the first found fewer than 2
NeedsStrategy2(authors) == Len(authors) < 2

\* [\d\*†‡§¹²³⁴⁵⁶⁷⁸⁹⁰] of line 241
TrailingSymbol == TrailingMarker \ {","}

Letter == Upper \cup Lower
EmailLocalChar == Letter \cup Digit \cup {".", "_", "%", "+", "-"}
EmailDomainChar == Letter \cup Digit \cup {".", "-"}

\* Last index of the match of \s*[a-zA-Z0-9._%+-]+@[a-zA-Z0-9.-]+\.[a-zA-Z]{2,}
\* that starts at s[i], 0 when there is none.  The greedy domain gives back
\* characters from the right, so the dot is the last one that two letters
\* follow.
EmailEnd(s, i) ==
  LET body == {j \in i..Len(s) : s[j] \notin Whitespace}
  IN  IF body = {} THEN 0
      ELSE LET j == Min(body)
               stop == {k \in j..Len(s) : s[k] \notin EmailLocalChar}
           IN  IF stop = {} \/ Min(stop) = j \/ s[Min(stop)] # "@" THEN 0
               ELSE LET a == Min(stop)
                        dstop == {k \in (a + 1)..Len(s) : s[k] \notin EmailDomainChar}
                        dend == IF dstop = {} THEN Len(s) ELSE Min(dstop) - 1
                        dots == {q \in (a + 2)..(dend - 2) :
                                   s[q] = "." /\ s[q + 1] \in Letter /\ s[q + 2] \in Letter}
                    IN  IF dots = {} THEN 0
                        ELSE LET q == Max(dots)
                                 lstop == {k \in (q + 1)..Len(s) : s[k] \notin Letter}
                             IN  IF lstop = {} THEN Len(s) ELSE Min(lstop) - 1

\* re.sub of that pattern by ''
RECURSIVE SubEmails(_)
SubEmails(s) ==
  LET at == {i \in 1..Len(s) : EmailEnd(s, i) > 0}
  IN  IF at = {} THEN s
      ELSE SubSeq(s, 1, Min(at) - 1) \o SubEmails(From(s, EmailEnd(s, Min(at)) + 1))

\* lines 239-243: the clean-up of one candidate
CleanCandidate(author) ==
  Strip(SubEmails(Strip(SubTrailing(Strip(author), TrailingSymbol))))

\* lines 246-252, but for "not in seen"
ValidAuthor(author) ==
  /\ Len(author) >= MinNameLen
  /\ author[1] \in Upper
  /\ (\E i \in 1..Len(author) : author[i] \in {" ", "."})
  /\ author \notin FalsePositives

\* lines 236-254: the loop over authors[:15] from index k on, cleaned being
\* the list so far (seen holds the same names)
RECURSIVE CleanAuthors(_, _, _)
CleanAuthors(authors, k, cleaned) ==
  IF k > Len(authors) \/ k > CleanupLimit THEN cleaned
  ELSE LET author == CleanCandidate(authors[k])
       IN  IF ValidAuthor(author) /\ author \notin Range(cleaned)
           THEN CleanAuthors(authors, k + 1, Append(cleaned, author))
           ELSE CleanAuthors(authors, k + 1, cleaned)

\* The candidates of both passes, in the order they are appended
AuthorCandidates(text) ==
  LET lines == Split(text, "\n")
      first == Strategy1(lines, StartLine + 1, <<>>)
  IN  IF NeedsStrategy2(first) THEN Strategy2(lines, 1, first) ELSE first

_extract_authors_from_text(text) ==
  IF ~ Truthy(text) THEN <<>>
  ELSE Prefix(CleanAuthors(AuthorCandidates(text), 1, <<>>), MaxAuthors)


(***************************************************************************)
(* PDFMetadataExtractor._extract_journal (lines 283-301).                  *)
(***************************************************************************)
JournalScanChars == 1000
JournalMaxLen == 200

JournalPhrases ==
  {<<"P","u","b","l","i","s","h","e","d"," ","i","n">>,
   <<"J","o","u","r","n","a","l"," ","o","f">>,
   <<"P","r","o","c","e","e","d","i","n","g","s"," ","o","f">>}

JournalKinds ==
  {<<"J","o","u","r","n","a","l">>,
   <<"R","e","v","i","e","w">>,
   <<"L","e","t","t","e","r","s">>,
   <<"T","r","a","n","s","a","c","t","i","o","n","s">>}

JournalLinks ==
  {<<"o","f">>,
   <<"o","n">>,
   <<"i","n">>}

\* s[i..] begins with w
WordAt(s, i, w) == i + Len(w) - 1 <= Len(s) /\ SubSeq(s, i, i + Len(w) - 1) = w

\* Last index of the longest run of class that starts at s[i]; i - 1 when
\* s[i] is not in class
RunEnd(s, i, class) ==
  LET stop == {k \in i..Len(s) : s[k] \notin class}
  IN  IF stop = {} THEN Len(s) ELSE Min(stop) - 1

\* Last index of the match of [^\n]+ that starts at s[i]
LineEnd(s, i) ==
  LET nl == {k \in i..Len(s) : s[k] = "\n"}
  IN  IF nl = {} THEN Len(s) ELSE Min(nl) - 1

\* The match of \s+([^\n]+) that starts at s[i]: <<first, last>> index of the
\* group, <<>> when there is no match.  When the white space runs to the end
\* of the text, \s+ gives back characters until the group can start.
LineTail(s, i) ==
  LET q == RunEnd(s, i, Whitespace)
  IN  IF q < i THEN <<>>
      ELSE IF q < Len(s) THEN <<q + 1, LineEnd(s, q + 1)>>
      ELSE LET back == {r \in (i + 1)..q : s[r] # "\n"}
           IN  IF back = {} THEN <<>> ELSE <<Max(back), Max(back)>>

\* The match of the first pattern (line 290) that starts at s[i]
JournalMatch1(s, i) ==
  LET ph == {w \in JournalPhrases : WordAt(s, i, w)}
  IN  IF ph = {} THEN <<>> ELSE LineTail(s, i + Len(CHOOSE w \in ph : TRUE))

\* The match of the second pattern (line 291) that starts at s[i]: the group
\* is the whole match
JournalMatch2(s, i) ==
  LET e == RunEnd(s, i + 1, Lower)
      q == RunEnd(s, e + 1, Whitespace)
      kinds == {w \in JournalKinds : WordAt(s, q + 1, w)}
  IN  IF ~ (i <= Len(s) /\ s[i] \in Upper /\ e >= i + 1 /\ q >= e + 1 /\ kinds # {})
      THEN <<>>
      ELSE LET p == q + 1 + Len(CHOOSE w \in kinds : TRUE)
               q2 == RunEnd(s, p, Whitespace)
               linked == IF q2 >= p /\ (\E w \in JournalLinks : WordAt(s, q2 + 1, w))
                         THEN LineTail(s, q2 + 3) ELSE <<>>
               tail == IF linked # <<>> THEN linked ELSE LineTail(s, p)
           IN  IF tail = <<>> THEN <<>> ELSE <<i, tail[2]>>

\* re.sub(r'\s+', ' ', s)
RECURSIVE CollapseSpace(_)
CollapseSpace(s) ==
  LET ws == {i \in 1..Len(s) : s[i] \in Whitespace}
  IN  IF ws = {} THEN s
      ELSE LET rest == RunEnd(s, Min(ws), Whitespace) + 1
           IN  SubSeq(s, 1, Min(ws) - 1) \o <<" ">> \o CollapseSpace(From(s, rest))

_extract_journal(text) ==
  IF ~ Truthy(text) THEN None
  ELSE LET s == Prefix(text, JournalScanChars)
           at1 == {i \in 1..Len(s) : JournalMatch1(s, i) # <<>>}
           at2 == {i \in 1..Len(s) : JournalMatch2(s, i) # <<>>}
           m == IF at1 # {} THEN JournalMatch1(s, Min(at1))
                ELSE IF at2 # {} THEN JournalMatch2(s, Min(at2))
                ELSE <<>>
       IN  IF m = <<>> THEN None
           ELSE Some(Prefix(CollapseSpace(Strip(SubSeq(s, m[1], m[2]))), JournalMaxLen))

(***************************************************************************)
(* PDFMetadataExtractor._extract_abstract (lines 303-315).                 *)
(***************************************************************************)
AbstractMaxLen == 500

sAbstract ==
  <<"a","b","s","t","r","a","c","t">>
sKeywords ==
  <<"k","e","y","w","o","r","d","s",":">>

\* (?i) is a flag of the whole pattern: every literal and every class of it
\* ignores case, [A-Z] too

\* s[i..] begins with w in upper or lower case, w being in lower case
WordAtNoCase(s, i, w) ==
  i + Len(w) - 1 <= Len(s) /\ ToLower(SubSeq(s, i, i + Len(w) - 1)) = w

\* (?:\n\n|\n[A-Z]|\nKeywords:) matches at s[t]
AbstractStopAt(s, t) ==
  /\ t < Len(s)
  /\ s[t] = "\n"
  /\ \/ s[t + 1] = "\n"
     \/ s[t + 1] \in Letter
     \/ WordAtNoCase(s, t + 1, sKeywords)

\* The group of the match of line 309 that starts at s[i]: <<first, last>>,
\* <<>> when there is no match.  [:\s]* is greedy and gives back characters
\* from the right until a newline follows it; (.+?) takes at least one
\* character and then stops at the first place the ending matches.
AbstractMatch(s, i) ==
  IF ~ WordAtNoCase(s, i, sAbstract) THEN <<>>
  ELSE LET p == i + Len(sAbstract)
           q == RunEnd(s, p, Whitespace \cup {":"})
           ok == {n \in p..q : s[n] = "\n" /\ \E t \in (n + 2)..Len(s) : AbstractStopAt(s, t)}
       IN  IF ok = {} THEN <<>>
           ELSE LET n == Max(ok)
                IN  <<n + 1, Min({t \in (n + 2)..Len(s) : AbstractStopAt(s, t)}) - 1>>

_extract_abstract(text) ==
  IF ~ Truthy(text) THEN None
  ELSE LET at == {i \in 1..Len(text) : AbstractMatch(text, i) # <<>>}
       IN  IF at = {} THEN None
           ELSE LET m == AbstractMatch(text, Min(at))
                IN  Some(Prefix(CollapseSpace(Strip(SubSeq(text, m[1], m[2]))),
                                AbstractMaxLen))


(***************************************************************************)
(* The documents extract_metadata is called on.  A document is what        *)
(* PdfReader finds behind pdf_path: whether and where reading it raises,   *)
(* the embedded metadata dictionary, the number of pages and the text of   *)
(* the first page.                                                         *)
(***************************************************************************)
\* s[1] \o sep \o s[2] \o ... : sep.join(s)
RECURSIVE Join(_, _)
Join(s, sep) ==
  IF s = <<>> THEN <<>>
  ELSE IF Len(s) = 1 THEN s[1]
  ELSE s[1] \o sep \o Join(Tail(s), sep)

PathPaper ==
  <<"d","o","c","s","/","m","y","_","p","a","p","e","r","-","v","2",".","p","d","f">>
PathReport ==
  <<"r","e","p","o","r","t",".","f","i","n","a","l",".","p","d","f">>

Paths == {PathPaper, PathReport}

\* The calls inside the try block that can raise, and "none"
FailPoints == {"none", "PdfReader", "metadata", "pages", "extract_text"}

\* Exception classes pypdf and the file system raise; all derive from
\* Exception
ExceptionClasses == {"FileNotFoundError", "PdfReadError"}

sEmbeddedTitle ==
  <<"E","m","b","e","d","d","e","d"," ","T","i","t","l","e">>
AuthorTwo ==
  <<"J","o","h","n"," ","S","m","i","t","h",";"," ","J","a","n","e"," ","D","o","e">>
AuthorTwice ==
  <<"J","o","h","n"," ","S","m","i","t","h",";"," ","J","o","h","n"," ","S","m","i","t","h">>
AuthorShort ==
  <<"a","b">>
DateGood ==
  <<"D",":","2","0","2","3","0","4","1","5","1","2","0","0","0","0">>
DateOld ==
  <<"D",":","0","0","1","2","0","1","0","1">>

\* reader.metadata: None, or the /Title, /Author and /CreationDate entries
\* (an entry that is missing is None, a missing date the default '')
Infos ==
  {None} \cup
  {Some(i) : i \in [Title : {None, Some(<<>>), Some(sEmbeddedTitle)},
                    Author : {None, Some(AuthorTwo), Some(AuthorTwice), Some(AuthorShort)},
                    CreationDate : {<<>>, DateGood, DateOld}]}

TextTest ==
  <<"T","i","t","l","e"," ","o","f"," ","P","a","p","e","r","\n","N","a","d","i","m","p","a","l","l","i","M","a","d","a","n","a","K","a","i","l","a","s","h","V","a","r","m","a","\n","D","e","p","a","r","t","m","e","n","t"," ","o","f"," ","C","o","m","p","u","t","e","r"," ","S","c","i","e","n","c","e">>
TextFull ==
  <<"A"," ","S","t","u","d","y"," ","o","f"," ","T","h","i","n","g","s","\n","S","H","O","R","T","\n","\n","J","o","h","n"," ","S","m","i","t","h","\n","D","e","p","a","r","t","m","e","n","t"," ","o","f"," ","P","h","y","s","i","c","s","\n","J","a","n","e"," ","D","o","e","\n","U","n","i","v","e","r","s","i","t","y"," ","o","f"," ","Y","\n","P","u","b","l","i","s","h","e","d"," ","i","n"," ","N","a","t","u","r","e"," ","2","0","2","1","\n","D","O","I",":"," ","1","0",".","1","1","0","9","/","I","S","M","L","6","0","0","5","0",".","2","0","2","4",".","1","1","0","0","7","4","3","9",".","\n","A","b","s","t","r","a","c","t","\n","W","e"," ","s","t","u","d","y"," ","t","h","i","n","g","s","\n","\n">>
TextNoTitle ==
  <<"I","N","T","R","O","D","U","C","T","I","O","N"," ","A","N","D","\n","s","h","o","r","t","\n">>
TextRepeat ==
  <<"T","\n","x","\n","x","\n","J","o","h","n"," ","S","m","i","t","h","\n","D","e","p","a","r","t","m","e","n","t","\n","J","o","h","n"," ","S","m","i","t","h","\n","D","e","p","a","r","t","m","e","n","t","\n">>
sTitleLine ==
  <<"A"," ","R","e","a","l"," ","T","i","t","l","e"," ","L","i","n","e">>

\* k lines "x" and then the line
TextAfterFiller(k, line) == Join([i \in 1..k |-> <<"x">>] \o <<line>>, <<"\n">>)

Texts ==
  {<<>>, TextTest, TextFull, TextNoTitle, TextRepeat,
   TextAfterFiller(TitleScanLines - 1, sTitleLine),
   TextAfterFiller(TitleScanLines, sTitleLine)}

\* What a failing call never reads is left out.
Docs ==
  {d \in [pdf_path : Paths, fails : FailPoints, exc : ExceptionClasses,
          info : Infos, num_pages : 0..1, text : Texts] :
     /\ d.fails = "none" => d.exc = "PdfReadError"
     /\ d.fails \in {"PdfReader", "metadata"} => d.info = None
     /\ d.fails \in {"PdfReader", "metadata", "pages"} => d.num_pages = 0
     /\ d.fails = "extract_text" => d.num_pages = 1
     /\ (d.num_pages = 0 \/ d.fails = "extract_text") => d.text = <<>>}

(***************************************************************************)
(* PDFMetadataExtractor.extract_metadata (lines 16-96), one action per     *)
(* step of it.                                                             *)
(***************************************************************************)
NoProbe == [fn |-> "none", parts |-> <<>>, arg |-> <<>>, ret |-> <<>>]

\* lines 26-35
NewMetadata(pdf_path) ==
  [filename |-> BaseName(pdf_path), filepath |-> pdf_path, title |-> None,
   authors |-> <<>>, year |-> None, journal |-> None, doi |-> None,
   abstract |-> None]

\* line 91
FilenameTitle(filename) == Replace(Replace(SplitExtRoot(filename), "_", " "), "-", " ")

\* A handler that is too narrow: except OSError
CatchesOSError(exc) == exc \in {"FileNotFoundError"}

\* line 93: except Exception catches every class that derives from Exception
Catches(exc) == exc \in {"FileNotFoundError", "PdfReadError"}

Init ==
  /\ pc = "idle"
  /\ doc = None
  /\ metadata = None
  /\ raised = None
  /\ probe = NoProbe

\* extract_pdf_metadata(pdf_path) (lines 322-324) and lines 26-35
Call ==
  /\ pc = "idle"
  /\ \E d \in Docs :
       /\ doc' = d
       /\ metadata' = NewMetadata(d.pdf_path)
  /\ pc' = "open"
  /\ raised' = None
  /\ probe' = NoProbe

Raise ==
  /\ raised' = Some(doc.exc)
  /\ pc' = "except"
  /\ UNCHANGED <<doc, metadata, probe>>

\* line 38
OpenReader ==
  /\ pc = "open"
  /\ IF doc.fails = "PdfReader" THEN Raise
     ELSE /\ pc' = "info"
          /\ UNCHANGED <<doc, metadata, raised, probe>>

\* An extractor that does not read /Author
WithInfoNoAuthor(md, pdf_info) ==
  LET m1 == [md EXCEPT !.title = pdf_info.Title]
      year == _extract_year(pdf_info.CreationDate)
  IN  IF year # None THEN [m1 EXCEPT !.year = year] ELSE m1

\* lines 44-55, pdf_info being a dictionary that is not empty
WithInfo(md, pdf_info) ==
  LET m1 == [md EXCEPT !.title = pdf_info.Title]
      m2 == IF TruthyOpt(pdf_info.Author)
            THEN [m1 EXCEPT !.authors = _parse_authors(pdf_info.Author[1])]
            ELSE m1
      year == _extract_year(pdf_info.CreationDate)
  IN  IF year # None THEN [m2 EXCEPT !.year = year] ELSE m2

\* lines 41-57
ReadInfo ==
  /\ pc = "info"
  /\ IF doc.fails = "metadata" THEN Raise
     ELSE /\ metadata' = IF doc.info # None THEN WithInfo(metadata, doc.info[1])
                         ELSE metadata
          /\ pc' = "page"
          /\ UNCHANGED <<doc, raised, probe>>

\* An extractor that takes the title of the page text whatever the embedded
\* title is
WithFirstPageTitleFromText(md, first_page_text) ==
  LET m1 == [md EXCEPT !.title = _extract_title_from_text(first_page_text)]
      m2 == IF ~ Truthy(m1.authors)
            THEN [m1 EXCEPT !.authors = _extract_authors_from_text(first_page_text)]
            ELSE m1
      m3 == IF m2.year = None
            THEN [m2 EXCEPT !.year = _extract_year_from_text(first_page_text)]
            ELSE m2
  IN  [m3 EXCEPT !.doi = _extract_doi(first_page_text),
                 !.journal = _extract_journal(first_page_text),
                 !.abstract = _extract_abstract(first_page_text)]

\* lines 64-87
WithFirstPage(md, first_page_text) ==
  LET m1 == IF ~ TruthyOpt(md.title)
            THEN [md EXCEPT !.title = _extract_title_from_text(first_page_text)]
            ELSE md
      m2 == IF ~ Truthy(m1.authors)
            THEN [m1 EXCEPT !.authors = _extract_authors_from_text(first_page_text)]
            ELSE m1
      m3 == IF m2.year = None
            THEN [m2 EXCEPT !.year = _extract_year_from_text(first_page_text)]
            ELSE m2
  IN  [m3 EXCEPT !.doi = _extract_doi(first_page_text),
                 !.journal = _extract_journal(first_page_text),
                 !.abstract = _extract_abstract(first_page_text)]

\* lines 60-87
FirstPage ==
  /\ pc = "page"
  /\ IF doc.fails = "pages" \/ (doc.num_pages > 0 /\ doc.fails = "extract_text")
     THEN Raise
     ELSE /\ metadata' = IF doc.num_pages > 0 THEN WithFirstPage(metadata, doc.text)
                         ELSE metadata
          /\ pc' = "fallback"
          /\ UNCHANGED <<doc, raised, probe>>

\* lines 90-91
TitleFallback ==
  /\ pc = "fallback"
  /\ metadata' = IF ~ TruthyOpt(metadata.title)
                 THEN [metadata EXCEPT !.title = Some(FilenameTitle(metadata.filename))]
                 ELSE metadata
  /\ pc' = "return"
  /\ UNCHANGED <<doc, raised, probe>>

\* lines 93-94: the handler logs the error; an exception it does not catch
\* leaves extract_metadata
HandleException ==
  /\ pc = "except"
  /\ IF Catches(raised[1])
     THEN pc' = "return" /\ raised' = None
     ELSE pc' = "propagated" /\ UNCHANGED raised
  /\ UNCHANGED <<doc, metadata, probe>>

\* line 96
Return ==
  /\ pc = "return"
  /\ pc' = "returned"
  /\ UNCHANGED <<doc, metadata, raised, probe>>

(***************************************************************************)
(* Direct calls of the helper methods, as the unit tests make them         *)
(* (src/tests/test_pdf_metadata.py).  probe records the call.              *)
(***************************************************************************)
\* parts: the pieces the argument was put together from, when a claim reads
\* them, else the empty list
Probed(fn, parts, arg, ret) ==
  /\ pc = "idle"
  /\ pc' = "helper_returned"
  /\ probe' = [fn |-> fn, parts |-> parts, arg |-> arg, ret |-> ret]
  /\ UNCHANGED <<doc, metadata, raised>>

\* The digits the year tokens of the inputs are written with
YearDigits == {"0", "1", "2", "8", "9"}

FourDigits == {<<a, b, c, d>> : a \in YearDigits, b \in YearDigits, c \in YearDigits, d \in YearDigits}

\* Creation dates: a four-digit token, bare or in the PDF date format
\* D:YYYYMMDD, and strings with no such token
DateStrings ==
  {pre \o y \o post : pre \in {<<>>, <<"D", ":">>}, y \in FourDigits,
                      post \in {<<>>, <<"0", "4", "1", "5">>}}
    \cup {<<>>, <<"i", "n", "v", "a", "l", "i", "d">>, <<"D", ":", "2", "0", "2">>}

\* test_extract_year_from_date, test_extract_year_invalid
Call_extract_year ==
  /\ pc = "idle"
  /\ \E date_str \in DateStrings : Probed("_extract_year", <<>>, date_str, _extract_year(date_str))

\* The largest number of names joined into one author string
MaxNames == 3

sJohnSmith ==
  <<"J","o","h","n"," ","S","m","i","t","h">>
sJaneDoe ==
  <<" ","J","a","n","e"," ","D","o","e">>
sAnd ==
  <<"a","n","d">>
sAnnAnd ==
  <<"A","n","n"," ","a","n","d">>

NamePool == {sJohnSmith, sJaneDoe, sAnd, sAnnAnd}

\* ';', ',', ' and ', ' & ' and the newline
Delims == {<<";">>, <<",">>, <<" ", "a", "n", "d", " ">>, <<" ", "&", " ">>, <<"\n">>}

\* names[1] delims[1] names[2] ... delims[n-1] names[n]
RECURSIVE JoinNames(_, _)
JoinNames(names, delims) ==
  IF Len(names) = 1 THEN names[1]
  ELSE names[1] \o delims[1] \o JoinNames(Tail(names), Tail(delims))

\* test_parse_authors_single, _multiple_comma, _with_and: names joined by
\* delimiters
Call_parse_authors_joined ==
  /\ pc = "idle"
  /\ \E n \in 1..MaxNames : \E names \in [1..n -> NamePool] : \E delims \in [1..(n - 1) -> Delims] :
       Probed("_parse_authors", names, JoinNames(names, delims),
              _parse_authors(JoinNames(names, delims)))

\* The largest number of pieces put together into one author string
MaxPieces == 3

sAl ==
  <<"A","l">>
sEmailGroup ==
  <<" ","(","j","@","x",".","o","r","g",")">>
sBracketGroup ==
  <<" ","[","M","I","T","]">>
sOpenGroup ==
  <<" ","(","M","I","T">>
ExampleCleanup ==
  <<"J","o","h","n"," ","S","m","i","t","h"," ","(","j","o","h","n","@","e","x","a","m","p","l","e",".","c","o","m",")","sup1",","," ","J","a","n","e"," ","D","o","e","sup2">>
ExampleThree ==
  <<"J","o","h","n"," ","S","m","i","t","h",","," ","J","a","n","e"," ","D","o","e",","," ","B","o","b"," ","J","o","h","n","s","o","n">>

AuthorPieces ==
  {sJohnSmith, sAl, <<";">>, <<",">>, sEmailGroup, sBracketGroup, sOpenGroup,
   <<")">>, <<"sup1">>, <<" ", "*">>}

RECURSIVE Concat(_)
Concat(pieces) == IF pieces = <<>> THEN <<>> ELSE Head(pieces) \o Concat(Tail(pieces))

\* Author strings: up to MaxPieces pieces in a row, and the strings of
\* test_parse_authors_cleanup and test_parse_authors_multiple_comma
AuthorStrings ==
  {Concat(ps) : ps \in UNION {[1..n -> AuthorPieces] : n \in 0..MaxPieces}}
    \cup {ExampleCleanup, ExampleThree}

\* test_parse_authors_cleanup
Call_parse_authors ==
  /\ pc = "idle"
  /\ \E author_str \in AuthorStrings :
       Probed("_parse_authors", <<>>, author_str, _parse_authors(author_str))

\* Year tokens around the ends of the range
YearTokens ==
  {<<"1","8","9","9">>, <<"1","9","0","0">>, <<"1","9","8","7">>, <<"2","0","2","3">>,
   <<"2","0","9","9">>, <<"2","1","0","0">>, <<"2","1","0","1">>}

\* One token, or two with a character between them that is or is not a
\* word character
YearBodies ==
  YearTokens \cup
  {a \o sep \o b : a \in YearTokens, sep \in {<<" ">>, <<"x">>}, b \in YearTokens}

\* The body starts right after k dots: at the start of the text, or so that
\* it ends at, crosses or starts after the end of the scanned window
YearPads ==
  {0, YearScanChars - 9, YearScanChars - 5, YearScanChars - 4, YearScanChars - 3,
   YearScanChars}

\* test_extract_year_from_text
Call_extract_year_from_text ==
  /\ pc = "idle"
  /\ \E k \in YearPads : \E body \in YearBodies :
       LET text == [i \in 1..k |-> "."] \o body
       IN  Probed("_extract_year_from_text", <<k, body>>, text, _extract_year_from_text(text))

\* The largest number of lines before the two candidate lines of a text
MaxFillerLines == 11

sUpperLine ==
  <<"A","L","L"," ","U","P","P","E","R"," ","C","A","S","E"," ","L","I","N","E">>
sShortLine ==
  <<"s","h","o","r","t">>
sPaddedLine ==
  <<" "," ","A"," ","P","a","d","d","e","d"," ","T","i","t","l","e"," "," ">>
sDigitLine ==
  <<"1","2","3","4","5","6","7","8","9","0","1">>

TitleLines == {sTitleLine, sUpperLine, sShortLine, sPaddedLine, sDigitLine}

Call_extract_title_from_text ==
  /\ pc = "idle"
  /\ \E k \in 0..MaxFillerLines : \E l1 \in TitleLines : \E l2 \in TitleLines :
       LET text == Join([i \in 1..k |-> <<"x">>] \o <<l1, l2>>, <<"\n">>)
       IN  Probed("_extract_title_from_text", <<>>, text, _extract_title_from_text(text))

\* The largest number of pieces put together into one text with a DOI
MaxDoiPieces == 4

ExampleDoi ==
  <<"T","h","i","s"," ","p","a","p","e","r"," ","i","s"," ","p","u","b","l","i","s","h","e","d","."," ","D","O","I",":"," ","1","0",".","1","1","0","9","/","I","S","M","L","6","0","0","5","0",".","2","0","2","4",".","1","1","0","0","7","4","3","9">>

\* Texts: up to MaxDoiPieces pieces in a row (a prefix with four digits or
\* two, a slash, a suffix, punctuation, a space), and the text of
\* test_extract_doi_from_text
DoiTexts ==
  {Concat(ps) : ps \in UNION {[1..n ->
      {<<"1","0",".","1","1","0","9">>, <<"1","0",".","1","2">>, <<"/">>, <<"a","b","c">>,
       <<".">>, <<")">>, <<":">>, <<" ">>}] : n \in 0..MaxDoiPieces}}
    \cup {ExampleDoi}

\* test_extract_doi_from_text, test_extract_doi_not_found
Call_extract_doi ==
  /\ pc = "idle"
  /\ \E text \in DoiTexts : Probed("_extract_doi", <<>>, text, _extract_doi(text))

\* The largest number of lines of an abstract
MaxAbstractLines == 2

\* A heading line (or none), the lines of the abstract, each beginning with a
\* lowercase letter or a digit, and what ends the abstract: a blank line, the
\* Keywords: marker or a line that begins with a capital letter
Call_extract_abstract ==
  /\ pc = "idle"
  /\ \E heading \in {<<>>, <<"A","b","s","t","r","a","c","t","\n">>, <<"1","."," ","A","B","S","T","R","A","C","T",":","\n">>} :
     \E n \in 1..MaxAbstractLines :
     \E body \in [1..n -> {<<"w","e"," ","s","t","u","d","y">>, <<"t","h","i","n","g","s"," ","h","e","r","e">>, <<"3"," ","c","a","s","e","s",".">>}] :
     \E ending \in {<<"\n","\n","I","n","t","r","o","d","u","c","t","i","o","n">>, <<"\n","K","e","y","w","o","r","d","s",":"," ","x">>, <<"\n","R","e","s","u","l","t","s"," ","f","o","l","l","o","w">>} :
       LET text == heading \o Join(body, <<"\n">>) \o ending
       IN  Probed("_extract_abstract", <<heading, body, ending>>, text, _extract_abstract(text))

\* The largest number of other author lines of a first page
MaxOthers == 10

\* A first page: lead lines "x", then `before` times the pair John Smith /
\* Department of Physics, the line `name` with the line Department of
\* Computer Science after it, then `after` times the pair again
AuthorPage(lead, before, name, after) ==
  LET pair == <<<<"J","o","h","n"," ","S","m","i","t","h">>, <<"D","e","p","a","r","t","m","e","n","t"," ","o","f"," ","P","h","y","s","i","c","s">>>>
      Pairs(k) == Concat([i \in 1..k |-> pair])
  IN  Join([i \in 1..lead |-> <<"x">>] \o Pairs(before)
             \o <<name, <<"D","e","p","a","r","t","m","e","n","t"," ","o","f"," ","C","o","m","p","u","t","e","r"," ","S","c","i","e","n","c","e">>>> \o Pairs(after),
           <<"\n">>)

\* test_extract_authors_from_camelcase: a CamelCase line before a
\* Department line, at the top of the page, after the skipped lines, at the
\* end of the scanned window and past it, other authors before or after it
Call_extract_authors_from_text ==
  /\ pc = "idle"
  /\ \E lead \in {0, 1, 2, StartLine, ScanLines - 1, ScanLines} :
     \E k \in 0..MaxOthers : \E side \in {"before", "after"} :
     \E name \in {<<"N","a","d","i","m","p","a","l","l","i","M","a","d","a","n","a","K","a","i","l","a","s","h","V","a","r","m","a">>, <<"J","o","h","n","S","m","i","t","h">>, <<"S","m","a","r","t","T","r","a","n","s","i","t","T","r","a","c","k","i","n","g">>, <<"M","a","c","h","i","n","e","L","e","a","r","n","i","n","g","M","e","t","h","o","d","s">>, <<"A","r","t","i","f","i","c","i","a","l","I","n","t","e","l","l","i","g","e","n","c","e">>} :
       LET before == IF side = "before" THEN k ELSE 0
           after == IF side = "after" THEN k ELSE 0
           text == AuthorPage(lead, before, name, after)
       IN  Probed("_extract_authors_from_text", <<lead, before, after, name>>, text,
                  _extract_authors_from_text(text))

Next ==
  \/ Call
  \/ OpenReader
  \/ ReadInfo
  \/ FirstPage
  \/ TitleFallback
  \/ HandleException
  \/ Return
  \/ Call_extract_year
  \/ Call_parse_authors_joined
  \/ Call_parse_authors
  \/ Call_extract_year_from_text
  \/ Call_extract_title_from_text
  \/ Call_extract_doi
  \/ Call_extract_abstract
  \/ Call_extract_authors_from_text

Spec == Init /\ [][Next]_vars


(***************************************************************************)
(* Two invocations of extract_metadata at once, as the executor threads    *)
(* of the bot make them through the one module-level _extractor (lines     *)
(* 319-324).  PDFMetadataExtractor has no attribute: all an invocation     *)
(* writes is its own local dict.  Here pc, doc, raised and probe are       *)
(* functions of the invocation, metadata a function of the dict, and       *)
(* probe[t] is the record invocation t returned.                           *)
(***************************************************************************)
\* The documents of the two invocations: with and without embedded entries,
\* with and without page text, read without failure or with extract_text
\* raising
ConcDocs ==
  {d \in [pdf_path : Paths, fails : {"none", "extract_text"}, exc : {"PdfReadError"},
          info : {None, Some([Title |-> Some(sEmbeddedTitle), Author |-> Some(AuthorTwo),
                              CreationDate |-> DateGood])},
          num_pages : {1}, text : {<<>>, TextTest}] :
     d.fails = "extract_text" => d.text = <<>>}

\* A dict kept on the shared extractor instead of in the invocation
SharedSlot(t) == 1

\* line 26: metadata is a local variable, one dict per invocation
Slot(t) == t

\* lines 37-96: one step of an invocation on document d from the position,
\* dict and exception in flight of st
ExtractStep(d, st) ==
  LET Go(p, md) == [pc |-> p, metadata |-> md, raised |-> st.raised]
      Throw == [pc |-> "except", metadata |-> st.metadata, raised |-> Some(d.exc)]
  IN  CASE st.pc = "open" ->
             IF d.fails = "PdfReader" THEN Throw ELSE Go("info", st.metadata)
        [] st.pc = "info" ->
             IF d.fails = "metadata" THEN Throw
             ELSE Go("page", IF d.info # None THEN WithInfo(st.metadata, d.info[1])
                             ELSE st.metadata)
        [] st.pc = "page" ->
             IF d.fails = "pages" \/ (d.num_pages > 0 /\ d.fails = "extract_text") THEN Throw
             ELSE Go("fallback", IF d.num_pages > 0 THEN WithFirstPage(st.metadata, d.text)
                                 ELSE st.metadata)
        [] st.pc = "fallback" ->
             Go("return", IF ~ TruthyOpt(st.metadata.title)
                          THEN [st.metadata EXCEPT
                                  !.title = Some(FilenameTitle(st.metadata.filename))]
                          ELSE st.metadata)
        [] st.pc = "except" ->
             IF Catches(st.raised[1])
             THEN [pc |-> "return", metadata |-> st.metadata, raised |-> None]
             ELSE [pc |-> "propagated", metadata |-> st.metadata, raised |-> st.raised]
        [] st.pc = "return" -> Go("returned", st.metadata)

\* The record an invocation on d returns when it runs alone from st on
RECURSIVE Alone(_, _)
Alone(d, st) ==
  IF st.pc \in {"returned", "propagated"} THEN st.metadata
  ELSE Alone(d, ExtractStep(d, st))

ConcInit ==
  /\ pc = [t \in 1..2 |-> "idle"]
  /\ doc = [t \in 1..2 |-> None]
  /\ metadata = [t \in 1..2 |-> None]
  /\ raised = [t \in 1..2 |-> None]
  /\ probe = [t \in 1..2 |-> None]

\* extract_pdf_metadata(pdf_path) in thread t, lines 26-35; the two threads
\* read different files
Invoke(t) ==
  /\ pc[t] = "idle"
  /\ \E d \in ConcDocs :
       /\ d.pdf_path = (IF t = 1 THEN PathPaper ELSE PathReport)
       /\ doc' = [doc EXCEPT ![t] = d]
       /\ metadata' = [metadata EXCEPT ![Slot(t)] = NewMetadata(d.pdf_path)]
  /\ pc' = [pc EXCEPT ![t] = "open"]
  /\ UNCHANGED <<raised, probe>>

\* Thread t runs its next step; at line 96 the caller gets the dict
Advance(t) ==
  /\ pc[t] \notin {"idle", "returned", "propagated"}
  /\ \E st \in {ExtractStep(doc[t], [pc |-> pc[t], metadata |-> metadata[Slot(t)],
                                       raised |-> raised[t]])} :
         /\ pc' = [pc EXCEPT ![t] = st.pc]
         /\ metadata' = [metadata EXCEPT ![Slot(t)] = st.metadata]
         /\ raised' = [raised EXCEPT ![t] = st.raised]
         /\ probe' = IF st.pc = "returned" THEN [probe EXCEPT ![t] = Some(st.metadata)]
                     ELSE probe
  /\ UNCHANGED doc

ConcNext == \E t \in 1..2 : Invoke(t) \/ Advance(t)

ConcSpec == ConcInit /\ [][ConcNext]_vars

(***************************************************************************)
(* The per-user store of src/agent/user_store_manager.py, as the bot of    *)
(* src/bot/discord_bot.py drives it.  The directories of different users   *)
(* are disjoint, so the model follows the store of one user_id.  Here doc  *)
(* is that user's directory tree, [exists, files, index]: whether          *)
(* user_<id> exists, the files of user_<id>/pdfs as <<name, bytes>> pairs, *)
(* and whether user_<id>/chroma/chroma.sqlite3 exists.  pc is the position *)
(* of the build_user_index call running in the executor thread, metadata   *)
(* its local variables [pdfs, docs], raised the exception the last call    *)
(* raised, and probe the last call, [fn, parts, arg, ret], where parts     *)
(* holds the history the claims read: the <<filename, bytes>> pairs        *)
(* save_pdf stored since the store was last cleared (saved), and whether   *)
(* clear_user_data returned with no save_pdf call after it (cleared), and  *)
(* whether a build wrote the index since the store was last cleared        *)
(* (built).  The arg of a clear_user_data call is the tree it found.       *)
(***************************************************************************)
\* The filenames of the uploads: one with an upper case extension, two that
\* differ by a separator only, the one of test_filename_sanitization, and a
\* bare ".."
StoreFilenames ==
  {<<"P","a","p","e","r","1",".","P","D","F">>,
   <<"a","b",".","p","d","f">>,
   <<"a","/","b",".","p","d","f">>,
   <<"t","e","s","t","/",".",".","/",".",".","/",".",".","/","e","t","c","/","p","a","s","s","w","d",".","p","d","f">>,
   <<".",".">>}

\* The bytes of the uploads: a file PyPDFLoader reads and one it raises on
StoreContents ==
  {<<"%","P","D","F","-","1",".","4">>,
   <<"f","a","k","e"," ","p","d","f"," ","c","o","n","t","e","n","t">>}

\* The number of filenames saved between two clears
MaxSaved == 2

\* line 65: "".join(c for c in filename if c.isalnum() or c in "._- ")
SafeFilename(filename) ==
  SelectSeq(filename, LAMBDA c : c \in Upper \cup Lower \cup Digit \cup {".", "_", "-", " "})

\* lines 24, 35, 41: str(base_dir / f"user_{user_id}" / "pdfs")
PdfDir ==
  <<"s","t","o","r","e","/","u","s","e","r","s","/","u","s","e","r","_","7","/","p","d","f","s">>

\* lines 74-77: glob.glob(str(pdf_dir / "*.pdf")): the names that end in
\* ".pdf" as written and do not start with a dot
get_user_pdfs(tree) ==
  {PdfDir \o <<"/">> \o f[1] : f \in {g \in tree.files :
      /\ Len(g[1]) >= 4 /\ From(g[1], Len(g[1]) - 3) = <<".","p","d","f">>
      /\ g[1][1] # "."}}

RECURSIVE TotalSize(_)
\* line 197: sum(os.path.getsize(pdf) for pdf in pdfs), over <<name, bytes>> pairs
TotalSize(files) ==
  IF files = {} THEN 0
  ELSE LET f == CHOOSE g \in files : TRUE IN Len(f[2]) + TotalSize(files \ {f})

\* lines 189-207
get_user_stats(tree) ==
  LET pdfs == get_user_pdfs(tree)
  IN  [pdf_count |-> Cardinality(pdfs),
       total_size |-> TotalSize({f \in tree.files : PdfDir \o <<"/">> \o f[1] \in pdfs}),
       has_index |-> tree.index,
       pdf_names |-> {BaseName(p) : p \in pdfs}]

\* lines 33-49: every _get_*_dir call creates the user's directory
Made(tree) == [tree EXCEPT !.exists = TRUE]

StoreInit ==
  /\ pc = "idle"
  /\ doc = [exists |-> FALSE, files |-> {}, index |-> FALSE]
  /\ metadata = [pdfs |-> {}, docs |-> 0]
  /\ raised = None
  /\ probe = [fn |-> "none",
              parts |-> [saved |-> {}, cleared |-> FALSE, built |-> FALSE],
              arg |-> <<>>, ret |-> <<>>]

\* lines 51-72: save_pdf(user_id, pdf_content, filename).  open() raises when
\* pdf_dir / safe_filename is a directory: pdf_dir itself or its parent
save_pdf(filename, pdf_content) ==
  LET safe == SafeFilename(filename)
      isdir == safe \in {<<>>, <<".">>, <<".", ".">>}
      hist(saved) == IF isdir THEN saved
                     ELSE {p \in saved : p[1] # filename} \cup {<<filename, pdf_content>>}
  IN  /\ Cardinality({p[1] : p \in probe.parts.saved} \cup {filename}) <= MaxSaved
      /\ doc' = IF isdir THEN Made(doc)
                ELSE [Made(doc) EXCEPT !.files =
                        {f \in @ : f[1] # safe} \cup {<<safe, pdf_content>>}]
      /\ raised' = IF isdir THEN Some("IsADirectoryError") ELSE None
      /\ probe' = [fn |-> "save_pdf",
                   parts |-> [probe.parts EXCEPT !.saved = hist(@), !.cleared = FALSE],
                   arg |-> <<filename, pdf_content>>,
                   ret |-> IF isdir THEN None ELSE Some(PdfDir \o <<"/">> \o safe)]

\* A direct call of save_pdf, as the tests make it
Call_save_pdf ==
  /\ \E filename \in StoreFilenames, pdf_content \in StoreContents :
       save_pdf(filename, pdf_content)
  /\ UNCHANGED <<pc, metadata>>

\* discord_bot.py lines 109-140: an attachment arrives.  Only a filename
\* that ends in ".pdf" in lower case is taken; it is saved, and
\* build_user_index is handed to the executor thread
process_pdf_upload ==
  /\ pc = "idle"
  /\ \E filename \in StoreFilenames, pdf_bytes \in StoreContents :
       /\ Len(filename) >= 4
       /\ From(ToLower(filename), Len(filename) - 3) = <<".","p","d","f">>
       /\ save_pdf(filename, pdf_bytes)
  /\ pc' = IF raised' = None THEN "submitted" ELSE pc
  /\ UNCHANGED metadata

\* lines 74-77, called by the bot's library command and by the tests
Call_get_user_pdfs ==
  /\ probe' = [probe EXCEPT !.fn = "get_user_pdfs", !.arg = <<>>,
                            !.ret = get_user_pdfs(doc)]
  /\ doc' = Made(doc)
  /\ raised' = None
  /\ UNCHANGED <<pc, metadata>>

\* lines 189-207, called by the bot's stats command and by the tests
Call_get_user_stats ==
  /\ probe' = [probe EXCEPT !.fn = "get_user_stats", !.arg = <<>>,
                            !.ret = get_user_stats(doc)]
  /\ doc' = Made(doc)
  /\ raised' = None
  /\ UNCHANGED <<pc, metadata>>

\* lines 170-187 and discord_bot.py lines 628-633: clear_user_data makes the
\* directory (line 182), finds it (line 183) and removes it with all below
\* it; the bot then says which of the two it was
clear_library ==
  /\ LET user_dir == Made(doc)
         success == user_dir.exists
     IN  /\ doc' = IF success THEN [exists |-> FALSE, files |-> {}, index |-> FALSE]
                   ELSE user_dir
         /\ probe' = [fn |-> "clear_user_data",
                      parts |-> [saved |-> {}, cleared |-> TRUE, built |-> FALSE],
                      arg |-> doc,
                      ret |-> [success |-> success,
                               said |-> IF success THEN "Your library has been cleared."
                                        ELSE "Your library was already empty."]]
  /\ raised' = None
  /\ UNCHANGED <<pc, metadata>>

\* lines 89-92, in the executor thread: list the PDFs, return 0 if none
BuildList ==
  /\ pc = "submitted"
  /\ metadata' = [pdfs |-> get_user_pdfs(doc), docs |-> 0]
  /\ pc' = IF metadata'.pdfs = {} THEN "idle" ELSE "listed"
  /\ doc' = Made(doc)
  /\ UNCHANGED <<raised, probe>>

\* lines 95-122: load the listed files; a file that is gone or is no PDF
\* raises, which line 118 catches; return 0 if nothing was loaded
BuildLoad ==
  /\ pc = "listed"
  /\ LET docs == Cardinality({f \in doc.files :
                  /\ PdfDir \o <<"/">> \o f[1] \in metadata.pdfs
                  /\ StartsWith(f[2], <<"%","P","D","F">>)})
     IN  /\ metadata' = IF docs = 0 THEN [pdfs |-> {}, docs |-> 0]
                         ELSE [metadata EXCEPT !.docs = docs]
         /\ pc' = IF docs = 0 THEN "idle" ELSE "loaded"
  /\ UNCHANGED <<doc, raised, probe>>

\* lines 125-144: make the chroma directory and write the index into it
BuildPersist ==
  /\ pc = "loaded"
  /\ doc' = [Made(doc) EXCEPT !.index = TRUE]
  /\ metadata' = [pdfs |-> {}, docs |-> 0]
  /\ pc' = "idle"
  /\ probe' = [probe EXCEPT !.parts.built = TRUE]
  /\ UNCHANGED raised

\* user_store_manager.py lines 160-162 left out: a retriever whatever the
\* directory holds
get_retrieverUnchecked(tree) == Some("retriever")

\* user_store_manager.py lines 146-168: None unless chroma.sqlite3 exists
get_retriever(tree) == IF ~ tree.index THEN None ELSE Some("retriever")

\* A direct call of get_retriever
Call_get_retriever ==
  /\ probe' = [probe EXCEPT !.fn = "get_retriever", !.arg = <<>>,
                            !.ret = get_retriever(doc)]
  /\ doc' = Made(doc)
  /\ raised' = None
  /\ UNCHANGED <<pc, metadata>>

\* What the tools of tools_discord.py return: the notices of lines 33 and
\* 81, and after them what a query on an index gives (lines 39, 58, 64, 87)
ToolReplies ==
  <<<<"N","o"," ","P","D","F","s"," ","i","n","d","e","x","e","d"," ","y","e","t","."," ","P","l","e","a","s","e"," ","u","p","l","o","a","d"," ","P","D","F","s"," ","f","i","r","s","t"," ","u","s","i","n","g"," ","t","h","e"," ","u","p","l","o","a","d"," ","c","o","m","m","a","n","d"," ","o","r"," ","b","y"," ","a","t","t","a","c","h","i","n","g"," ","P","D","F","s"," ","t","o"," ","y","o","u","r"," ","m","e","s","s","a","g","e",".">>,
    <<"N","o"," ","P","D","F","s"," ","i","n","d","e","x","e","d"," ","y","e","t","."," ","P","l","e","a","s","e"," ","u","p","l","o","a","d"," ","P","D","F","s"," ","f","i","r","s","t",".">>,
    {<<"N","o"," ","r","e","l","e","v","a","n","t"," ","p","a","s","s","a","g","e","s"," ","f","o","u","n","d">>,
     <<"-"," ","t","e","x","t","\n"," "," ","[","1",","," ","p","."," ","1","]">>,
     <<"E","r","r","o","r",":"," ","t","i","m","e","o","u","t">>}>>

\* tools_discord.py lines 19-64 (which = 1) and lines 66-141 (which = 2):
\* retrieve_passages_for_user and summarize_with_citations_for_user, on the
\* store of the same base_dir (line 17)
Call_tool ==
  /\ \E which \in 1..2 :
       \E reply \in (IF get_retriever(Made(doc)) = None THEN {ToolReplies[which]}
                     ELSE ToolReplies[3]) :
         probe' = [probe EXCEPT
                     !.fn = IF which = 1 THEN "retrieve_passages_for_user"
                            ELSE "summarize_with_citations_for_user",
                     !.arg = <<>>, !.ret = reply]
  /\ doc' = Made(doc)
  /\ raised' = None
  /\ UNCHANGED <<pc, metadata>>

StoreNext ==
  \/ Call_save_pdf
  \/ process_pdf_upload
  \/ Call_get_user_pdfs
  \/ Call_get_user_stats
  \/ clear_library
  \/ BuildList
  \/ BuildLoad
  \/ BuildPersist
  \/ Call_get_retriever
  \/ Call_tool

StoreSpec == StoreInit /\ [][StoreNext]_vars

(***************************************************************************)
(* The conversation history of src/agent/conversation_manager.py, for one  *)
(* user_id.  Here doc is the user's JSON file, None when there is none and *)
(* else the list under "conversations"; probe is the last call, [fn,       *)
(* parts, arg, ret], where parts is the list of the conversations          *)
(* add_conversation was given since the history was last cleared.  json    *)
(* writes and reads back a str unchanged, so a conversation is the record  *)
(* that was stored; its timestamp, which no caller compares, is left out.  *)
(***************************************************************************)
\* The number of conversations added between two clears
MaxConversations == 3

\* The questions of the user
Questions == {"q1", "q2"}

\* The limits a caller passes: none, and the integers !history accepts
Limits == {None} \cup {Some(n) : n \in -2..(MaxConversations + 1)}

\* conversations[-limit:] of line 152, with the slice rules of Python
LastSlice(conversations, limit) ==
  LET n == Len(conversations)
      start == IF limit > 0 THEN (IF n - limit < 0 THEN 0 ELSE n - limit)
               ELSE (IF - limit > n THEN n ELSE - limit)
  IN  SubSeq(conversations, start + 1, n)

\* lines 125-154; the 0 of line 151 is false as None is
get_history(file, limit) ==
  IF file = None THEN <<>>
  ELSE IF limit # None /\ limit[1] # 0 THEN LastSlice(file[1], limit[1]) ELSE file[1]

HistoryInit ==
  /\ pc = "idle"
  /\ doc = None
  /\ metadata = None
  /\ raised = None
  /\ probe = [fn |-> "none", parts |-> <<>>, arg |-> <<>>, ret |-> <<>>]

\* lines 75-123
add_conversation ==
  /\ Len(probe.parts) < MaxConversations
  /\ \E question \in Questions :
       LET conversation == [question |-> question, answer |-> "a", sources |-> <<>>]
           history == IF doc # None THEN doc[1] ELSE <<>>
       IN  /\ doc' = Some(Append(history, conversation))
           /\ probe' = [fn |-> "add_conversation", parts |-> Append(probe.parts, conversation),
                        arg |-> question, ret |-> None]
  /\ UNCHANGED <<pc, metadata, raised>>

\* lines 125-154, called by format_history for !history (lines 228, 655)
Call_get_history ==
  /\ \E limit \in Limits :
       probe' = [probe EXCEPT !.fn = "get_history", !.arg = limit,
                              !.ret = get_history(doc, limit)]
  /\ UNCHANGED <<pc, doc, metadata, raised>>

\* lines 189-210
clear_history ==
  /\ doc' = None
  /\ probe' = [fn |-> "clear_history", parts |-> <<>>, arg |-> <<>>, ret |-> doc # None]
  /\ UNCHANGED <<pc, metadata, raised>>

HistoryNext ==
  \/ add_conversation
  \/ Call_get_history
  \/ clear_history

HistorySpec == HistoryInit /\ [][HistoryNext]_vars

(***************************************************************************)
(* Direct calls of _extract_authors_from_text (lines 148-256) on first     *)
(* pages built around one candidate line.  probe.parts holds what the page *)
(* was built from.                                                         *)
(***************************************************************************)
\* The candidate lines: one of each pattern of lines 176-199 and 218-233,
\* an honorific with a blank after the dot, two lines with a footnote sign
\* or an address after the name, a line that is no name, and a false
\* positive of line 251
NameLines ==
  {<<"N","a","d","i","m","p","a","l","l","i","M","a","d","a","n","a","K","a","i","l","a","s","h","V","a","r","m","a">>,
   <<"G",".","R","i","s","h","a","b","B","a","b","u">>,
   <<"M","r","s",".","F","a","t","i","m","a","U","n","n","i","s","a">>,
   <<"D","r","."," ","J","o","h","n"," ","S","m","i","t","h">>,
   <<"J","o","h","n"," ","S","m","i","t","h">>,
   <<"D","r",".","J","o","h","n","S","m","i","t","h","*"," ","j","s","@","x",".","o","r","g">>,
   <<"D","r",".","X","1">>,
   <<"s","o","m","e"," ","t","e","x","t"," ","h","e","r","e">>,
   <<"D","e","e","p"," ","L","e","a","r","n","i","n","g">>}

\* The line after the candidate: None when the page ends with the
\* candidate, else a line with or without a marker of lines 172-173
NextLines ==
  {None,
   Some(<<"D","e","p","a","r","t","m","e","n","t"," ","o","f"," ","P","h","y","s","i","c","s">>),
   Some(<<"d","e","p","a","r","t","m","e","n","t">>),
   Some(<<"X","Y","Z"," ","U","n","i","v","e","r","s","i","t","y">>),
   Some(<<"C","i","t","y"," ","C","O","L","L","E","G","E">>),
   Some(<<"T","h","e"," ","D","e","p","a","r","t","m","e","n","t">>),
   Some(<<"P","h","y","s","i","c","s"," ","L","a","b">>)}

\* Author lines the first pass finds, each with its marker line
OtherPairs ==
  <<<<"J","a","n","e"," ","D","o","e">>, <<"U","n","i","v","e","r","s","i","t","y"," ","o","f"," ","Y">>,
    <<"A","n","n"," ","L","e","e">>, <<"C","i","t","y"," ","C","o","l","l","e","g","e">>>>

\* A first page: lead lines "x", the candidate line, the line after it if
\* any, three lines "x", and the first `others` of the other authors
CandidatePage(lead, name, next, others) ==
  Join([i \in 1..lead |-> <<"x">>] \o <<name>> \o next
         \o (IF next = None THEN <<>>
             ELSE [i \in 1..3 |-> <<"x">>] \o SubSeq(OtherPairs, 1, 2 * others)),
       <<"\n">>)

Call_extract_authors_candidate ==
  /\ pc = "idle"
  /\ \E lead \in {0, StartLine, ScanLines - 1, ScanLines} :
     \E name \in NameLines : \E next \in NextLines : \E others \in 0..2 :
       /\ next = None => others = 0
       /\ LET text == CandidatePage(lead, name, next, others)
          IN  Probed("_extract_authors_from_text",
                     [lead |-> lead, name |-> name, next |-> next, others |-> others,
                      fragments |-> 0, pairs |-> 0, dup |-> FALSE],
                     text, _extract_authors_from_text(text))

\* A run of n capitalized fragments of total length len (len >= 2 * n):
\* n - 1 times "Qx", then "Z" and as many "y" as the length needs
CamelRun(n, len) ==
  [i \in 1..len |-> IF i <= 2 * (n - 1) THEN (IF i % 2 = 1 THEN "Q" ELSE "x")
                    ELSE IF i = 2 * n - 1 THEN "Z" ELSE "y"]

Call_extract_authors_camel ==
  /\ pc = "idle"
  /\ \E lead \in {0, StartLine} : \E n \in 1..7 :
     \E len \in {CamelMinLen - 1, CamelMinLen, CamelMinLen + 1,
                 CamelMaxLen - 1, CamelMaxLen, CamelMaxLen + 1} :
     \E next \in {None, Some(<<"D","e","p","a","r","t","m","e","n","t"," ","o","f"," ","P","h","y","s","i","c","s">>)} :
       /\ len >= 2 * n
       /\ LET text == CandidatePage(lead, CamelRun(n, len), next, 0)
          IN  Probed("_extract_authors_from_text",
                     [lead |-> lead, name |-> CamelRun(n, len), next |-> next, others |-> 0,
                      fragments |-> n, pairs |-> 0, dup |-> FALSE],
                     text, _extract_authors_from_text(text))

\* The most author lines on one page
MaxPairs == 12

PairLetters == <<"a","b","c","d","e","f","g","h","i","j","k","l","m","n">>

\* The j-th author line of a page of many: "Dr. Ka Smith", "Dr. Kb Smith",
\* ... when honorific (the second pass alone reads these), else "Ka Smith",
\* "Kb Smith", ...; with dup the second line repeats the first
PairName(honorific, dup, j) ==
  (IF honorific THEN <<"D","r","."," ">> ELSE <<>>)
    \o <<"K", PairLetters[IF dup /\ j = 2 THEN 1 ELSE j]>>
    \o <<" ","S","m","i","t","h">>

\* Three lines "x", then the author lines, each with its department line
ManyPage(honorific, dup, pairs) ==
  Join([i \in 1..(3 + 2 * pairs) |->
          IF i <= 3 THEN <<"x">>
          ELSE IF i % 2 = 0 THEN PairName(honorific, dup, (i - 2) \div 2)
          ELSE <<"D","e","p","a","r","t","m","e","n","t"," ","o","f"," ","X">>],
       <<"\n">>)

Call_extract_authors_many ==
  /\ pc = "idle"
  /\ \E honorific \in BOOLEAN : \E dup \in BOOLEAN : \E pairs \in 2..MaxPairs :
       LET text == ManyPage(honorific, dup, pairs)
       IN  Probed("_extract_authors_from_text",
                  [lead |-> StartLine, name |-> PairName(honorific, dup, 1),
                   next |-> Some(<<"D","e","p","a","r","t","m","e","n","t"," ","o","f"," ","X">>),
                   others |-> 0, fragments |-> 0, pairs |-> pairs, dup |-> dup],
                  text, _extract_authors_from_text(text))

AuthorsNext ==
  \/ Call_extract_authors_candidate
  \/ Call_extract_authors_camel
  \/ Call_extract_authors_many

AuthorsSpec == Init /\ [][AuthorsNext]_vars

(***************************************************************************)
(* What the user's vector store holds.  doc is the user's directory as     *)
(* before, with the chunks of the chroma collection as a bag: chunks[c] is *)
(* the number of copies of chunk c, a chunk being the saved file (name and *)
(* bytes) it was cut from; metadata counts the builds.                     *)
(***************************************************************************)
\* The most runs of build_user_index
MaxBuilds == 3

IndexInit ==
  /\ pc = "idle"
  /\ doc = [exists |-> FALSE, files |-> {}, index |-> FALSE, chunks |-> <<>>]
  /\ metadata = 0
  /\ raised = None
  /\ probe = [fn |-> "none",
              parts |-> [saved |-> {}, cleared |-> FALSE, built |-> FALSE],
              arg |-> <<>>, ret |-> <<>>]

\* user_store_manager.py lines 136-141: Chroma.from_documents opens the
\* collection of persist_directory, or creates it, and adds the chunks to
\* it under new ids
from_documents(collection, chunks) ==
  [c \in DOMAIN collection \cup chunks |->
     (IF c \in DOMAIN collection THEN collection[c] ELSE 0)
       + (IF c \in chunks THEN 1 ELSE 0)]

\* user_store_manager.py lines 79-144: the directory after
\* build_user_index, and the number it returns.  Nothing is removed from
\* the collection before the chunks are added (lines 131-134 only log)
build_user_index(tree) ==
  LET pdfs == get_user_pdfs(tree)
      docs == {f \in tree.files :
                 /\ PdfDir \o <<"/">> \o f[1] \in pdfs
                 /\ StartsWith(f[2], <<"%","P","D","F">>)}
  IN  IF docs = {} THEN [tree |-> Made(tree), ret |-> 0]
      ELSE [tree |-> [Made(tree) EXCEPT !.index = TRUE,
                                        !.chunks = from_documents(@, docs)],
            ret |-> Cardinality(docs)]

\* discord_bot.py lines 134-140: the build that process_pdf_upload handed
\* to the executor runs
UploadBuild ==
  /\ pc = "submitted"
  /\ metadata < MaxBuilds
  /\ \E built \in {build_user_index(doc)} :
       /\ doc' = built.tree
       /\ probe' = [probe EXCEPT !.fn = "build_user_index", !.arg = <<>>,
                                 !.ret = built.ret, !.parts.built = TRUE]
  /\ metadata' = metadata + 1
  /\ pc' = "idle"
  /\ raised' = None

\* reindex_user.py lines 14-44: main() for this user; it stops when the
\* user has no PDF or when the answer is not 'y'
reindex_user ==
  /\ metadata < MaxBuilds
  /\ \E response \in {"y", "n"} :
       IF get_user_stats(doc).pdf_count = 0 \/ response # "y"
       THEN /\ doc' = Made(doc)
            /\ probe' = [probe EXCEPT !.fn = "reindex_user", !.arg = response,
                                      !.ret = <<>>]
            /\ UNCHANGED metadata
       ELSE \E built \in {build_user_index(doc)} :
              /\ doc' = built.tree
              /\ probe' = [probe EXCEPT !.fn = "build_user_index", !.arg = response,
                                        !.ret = built.ret, !.parts.built = TRUE]
              /\ metadata' = metadata + 1
  /\ raised' = None
  /\ UNCHANGED pc

\* user_store_manager.py lines 170-187: the user's directory is removed
\* with the PDFs and the collection in it
clear_user_data ==
  /\ doc' = [exists |-> FALSE, files |-> {}, index |-> FALSE, chunks |-> <<>>]
  /\ probe' = [fn |-> "clear_user_data",
               parts |-> [saved |-> {}, cleared |-> TRUE, built |-> FALSE],
               arg |-> <<>>, ret |-> TRUE]
  /\ raised' = None
  /\ UNCHANGED <<pc, metadata>>

IndexNext ==
  \/ process_pdf_upload
  \/ UploadBuild
  \/ reindex_user
  \/ clear_user_data

IndexSpec == IndexInit /\ [][IndexNext]_vars

(***************************************************************************)
(* The way of the authors from the extractor through the metadata of a     *)
(* chunk to the inline citation.  A metadata value is None, a str or a     *)
(* list, told apart by kind as Python tells them apart.                    *)
(***************************************************************************)
StrValue(v) == [kind |-> "str", v |-> v]
ListValue(v) == [kind |-> "list", v |-> v]

\* What the extractor can return as authors: up to two of three names
AuthorLists ==
  LET names == {<<"J","o","h","n"," ","S","m","i","t","h">>,
                <<"J","a","n","e"," ","D","o","e">>,
                <<"G","."," ","R","i","s","h","a","b"," ","B","a","b","u">>}
  IN  {<<>>} \cup {<<a>> : a \in names} \cup {<<a, b>> : a \in names, b \in names}

\* metadata.get("page", "?"): PyPDFLoader counts pages from 0; None stands
\* for a chunk without the key
Pages == {None, Some(0), Some(1), Some(12)}

\* str(n) for n >= 0
RECURSIVE IntToStr(_)
IntToStr(n) ==
  LET digit == <<"0","1","2","3","4","5","6","7","8","9">>[(n % 10) + 1]
  IN  IF n < 10 THEN <<digit>> ELSE IntToStr(n \div 10) \o <<digit>>

\* authors[0] where authors is a str or a list: the first character of a
\* str, the first element of a list
FirstItem(authors) ==
  IF authors.kind = "str" THEN <<authors.v[1]>> ELSE authors.v[1]

\* s.split()[-1] for s with a character that is no white space
LastWord(s) ==
  LET t == Strip(s)
      at == {i \in 1..Len(t) : t[i] \in Whitespace}
  IN  IF at = {} THEN t ELSE From(t, Max(at) + 1)

\* citation_formatter.py lines 267-296 with style 'ieee': authors and year
\* are the values of the keys, page the argument ("?" for a missing key
\* is given as None)
format_inline_citation(authors, year, page) ==
  LET author_last == IF authors # None /\ authors.v # <<>>
                     THEN LastWord(FirstItem(authors))
                     ELSE <<"U","n","k","n","o","w","n">>
      year_str == IF year = None THEN <<"N","o","n","e">> ELSE IntToStr(year[1])
      page_str == IF page = None THEN <<",", " ", "p", ".", " ", "?">>
                  ELSE IF page[1] = 0 THEN <<>>
                  ELSE <<",", " ", "p", ".", " ">> \o IntToStr(page[1])
  IN  <<"(">> \o author_last \o <<",", " ">> \o year_str \o page_str \o <<")">>

\* build_index.py lines 100-110: what build_index attaches as bib_authors
JoinedAuthors(authors_list) ==
  IF authors_list # <<>> THEN StrValue(Join(authors_list, <<";", " ">>)) ELSE None

\* build_index.py lines 100-110 and tools_gemini.py lines 16-37: a chunk
\* indexed by build_index is retrieved by retrieve_passages
Call_retrieve_passages ==
  /\ pc = "idle"
  /\ \E authors \in AuthorLists : \E year \in {None, Some(2023)} : \E page \in Pages :
       LET bib_authors == JoinedAuthors(authors)
       IN  Probed("retrieve_passages",
                  [authors |-> authors, year |-> year, page |-> page],
                  bib_authors, format_inline_citation(bib_authors, year, page))

\* user_store_manager.py lines 108-115 and tools_discord.py lines 41-58: a
\* chunk indexed by build_user_index is retrieved by
\* retrieve_passages_for_user
Call_retrieve_passages_for_user ==
  /\ pc = "idle"
  /\ \E authors \in AuthorLists : \E year \in {None, Some(2023)} : \E page \in Pages :
       LET bib_authors == ListValue(authors)
       IN  Probed("retrieve_passages_for_user",
                  [authors |-> authors, year |-> year, page |-> page],
                  bib_authors, format_inline_citation(bib_authors, year, page))

CitationNext ==
  \/ Call_retrieve_passages
  \/ Call_retrieve_passages_for_user

CitationSpec == Init /\ [][CitationNext]_vars

(***************************************************************************)
(* The bot's !clear command (discord_bot.py lines 600-642) and the route   *)
(* to it from !general (lines 363-375), for one user.  doc is the user's   *)
(* directory; pc is "waiting" while the command waits for a reaction;      *)
(* metadata holds the id of its confirmation message, the number of        *)
(* confirmation messages sent so far and the seconds waited.               *)
(***************************************************************************)
\* line 625: timeout=30.0
ClearTimeout == 30

\* The most !clear commands of one run
MaxCommands == 2

\* lines 368-372
ClearPatterns ==
  {<<"c","l","e","a","r"," ","m","y"," ","d","a","t","a">>, <<"d","e","l","e","t","e"," ","m","y"," ","d","a","t","a">>, <<"c","l","e","a","r"," ","d","a","t","a">>, <<"d","e","l","e","t","e"," ","d","a","t","a">>,
   <<"c","l","e","a","r"," ","l","i","b","r","a","r","y">>, <<"d","e","l","e","t","e"," ","l","i","b","r","a","r","y">>, <<"c","l","e","a","r"," ","p","d","f","s">>, <<"d","e","l","e","t","e"," ","p","d","f","s">>,
   <<"r","e","m","o","v","e"," ","m","y"," ","d","a","t","a">>, <<"e","r","a","s","e"," ","m","y"," ","d","a","t","a">>, <<"c","l","e","a","r"," ","e","v","e","r","y","t","h","i","n","g">>, <<"r","e","s","e","t"," ","m","y"," ","d","a","t","a">>}

\* The queries given to !general
Queries ==
  {<<" "," ">>, <<"a","b">>, <<"c","l","e","a","r"," ","m","y"," ","d","a","t","a">>, <<"P","l","e","a","s","e"," ","D","E","L","E","T","E"," ","d","a","t","a">>, <<"W","h","a","t"," ","i","s"," ","M","L","?">>}

\* The directories the user may have when the command comes: none, one
\* with a PDF that is indexed, one with a PDF that is not
ClearTrees ==
  {[exists |-> FALSE, files |-> {}, index |-> FALSE],
   [exists |-> TRUE, files |-> {<<<<"a","b",".","p","d","f">>, <<"%","P","D","F","-","1",".","4">>>>}, index |-> TRUE],
   [exists |-> TRUE, files |-> {<<<<"a","b",".","p","d","f">>, <<"%","P","D","F","-","1",".","4">>>>}, index |-> FALSE]}

ClearInit ==
  /\ pc = "idle"
  /\ doc \in ClearTrees
  /\ metadata = [confirm_msg |-> 0, sent |-> 0, elapsed |-> 0]
  /\ raised = None
  /\ probe = [fn |-> "none", parts |-> <<>>, arg |-> <<>>, ret |-> <<>>]

\* The check of lines 617-622 with any user let through
checkAnyUser(reaction, user, confirm_msg) ==
  /\ reaction.emoji \in {"yes", "no"}
  /\ reaction.message = confirm_msg

\* lines 617-622: check(reaction, user) of the command whose confirmation
\* message is confirm_msg; "yes" and "no" are the two emoji of line 620
check(reaction, user, confirm_msg) ==
  /\ user = "author"
  /\ reaction.emoji \in {"yes", "no"}
  /\ reaction.message = confirm_msg

\* lines 609-615: the command sends its confirmation message, adds the two
\* reactions to it and waits
AskConfirmation(via) ==
  /\ metadata' = [confirm_msg |-> metadata.sent + 1, sent |-> metadata.sent + 1,
                  elapsed |-> 0]
  /\ pc' = "waiting"
  /\ probe' = [fn |-> via, parts |-> doc, arg |-> <<>>,
               ret |-> "React to confirm or to cancel."]
  /\ UNCHANGED <<doc, raised>>

\* !clear
clear_command ==
  /\ pc = "idle"
  /\ metadata.sent < MaxCommands
  /\ AskConfirmation("clear_library")

\* lines 325-375 of general_query: an empty or short query is answered at
\* once, a query with a clear pattern goes to clear_library, any other is
\* handled further on without a call of clear_user_data
general_query ==
  /\ pc = "idle"
  /\ metadata.sent < MaxCommands
  /\ \E query \in Queries :
       IF Strip(query) = <<>>
       THEN /\ probe' = [fn |-> "general_query", parts |-> doc, arg |-> query,
                         ret |-> "Empty query detected"]
            /\ UNCHANGED <<pc, doc, metadata, raised>>
       ELSE IF Len(Strip(query)) < 3
       THEN /\ probe' = [fn |-> "general_query", parts |-> doc, arg |-> query,
                         ret |-> "Query too short"]
            /\ UNCHANGED <<pc, doc, metadata, raised>>
       ELSE IF \E pattern \in ClearPatterns : Contains(Strip(ToLower(query)), pattern)
       THEN AskConfirmation("general_query")
       ELSE /\ probe' = [fn |-> "general_query", parts |-> doc, arg |-> query,
                         ret |-> "not routed to clear"]
            /\ UNCHANGED <<pc, doc, metadata, raised>>

\* A reaction_add event: the author, another user or the bot itself (lines
\* 614-615) adds an emoji to the confirmation message of this command, to
\* an earlier one or to another message (0).  Lines 624-635: the first
\* event that passes check ends the wait; the store is cleared (lines
\* 170-187 of user_store_manager.py) when its emoji is the first of the two
ReactionAdd ==
  /\ pc = "waiting"
  /\ \E user \in {"author", "other", "bot"} : \E emoji \in {"yes", "no", "thumb"} :
     \E message \in 0..metadata.sent :
       LET reaction == [emoji |-> emoji, message |-> message]
       IN  IF ~ check(reaction, user, metadata.confirm_msg)
           THEN /\ probe' = [probe EXCEPT !.arg = <<reaction, user>>, !.ret = "ignored"]
                /\ UNCHANGED <<pc, doc, metadata>>
           ELSE IF emoji = "yes"
           THEN /\ doc' = IF Made(doc).exists
                          THEN [exists |-> FALSE, files |-> {}, index |-> FALSE]
                          ELSE Made(doc)
                /\ probe' = [probe EXCEPT !.arg = <<reaction, user>>,
                                          !.ret = IF Made(doc).exists
                                                  THEN "Your library has been cleared."
                                                  ELSE "Your library was already empty."]
                /\ pc' = "idle"
                /\ metadata' = [metadata EXCEPT !.confirm_msg = 0]
           ELSE /\ probe' = [probe EXCEPT !.arg = <<reaction, user>>, !.ret = "Cancelled."]
                /\ pc' = "idle"
                /\ metadata' = [metadata EXCEPT !.confirm_msg = 0]
                /\ UNCHANGED doc
  /\ raised' = None

\* Ten seconds pass; lines 625 and 637-638: after 30 seconds of waiting
\* wait_for raises TimeoutError and the command says so
Wait ==
  /\ pc = "waiting"
  /\ IF metadata.elapsed + 10 >= ClearTimeout
     THEN /\ pc' = "idle"
          /\ metadata' = [metadata EXCEPT !.confirm_msg = 0, !.elapsed = @ + 10]
          /\ probe' = [probe EXCEPT !.arg = <<>>,
                                    !.ret = "Confirmation timeout. Clear cancelled."]
     ELSE /\ metadata' = [metadata EXCEPT !.elapsed = @ + 10]
          /\ UNCHANGED <<pc, probe>>
  /\ UNCHANGED <<doc, raised>>

ClearNext ==
  \/ clear_command
  \/ general_query
  \/ ReactionAdd
  \/ Wait

ClearSpec == ClearInit /\ [][ClearNext]_vars

(***************************************************************************)
(* The claims.                                                             *)
(***************************************************************************)
MetadataKeys ==
  {"filename", "filepath", "title", "authors", "year", "journal", "doi", "abstract"}

Returned == pc = "returned"

\* The call hit a failure: one of the calls in the try block raised
Failed == doc.fails # "none"

\* C1: extract_metadata never lets an exception out: whatever the document
\* and wherever reading it raises, the call ends by returning the metadata
\* record, with no exception left in flight.
C1_NeverPropagates ==
  /\ pc # "propagated"
  /\ Returned => (DOMAIN metadata = MetadataKeys /\ raised = None)

\* A call during which PdfReader or extract_text raised has returned
C1_Witness == Returned /\ Failed

\* C2: after a failure the returned record has the filename-derived title,
\* no authors and no year, journal, doi or abstract
C2_FailureRecord ==
  (Returned /\ Failed) =>
    /\ metadata.title = Some(FilenameTitle(BaseName(doc.pdf_path)))
    /\ metadata.authors = <<>>
    /\ metadata.year = None
    /\ metadata.journal = None
    /\ metadata.doi = None
    /\ metadata.abstract = None

\* C3: every returned record has a title that is a non-empty string
C3_TitleNonEmpty == Returned => TruthyOpt(metadata.title)

\* Absent, or an integer from 1900 to 2100
YearOk(year) == year = None \/ (year[1] \in Int /\ 1900 <= year[1] /\ year[1] <= 2100)

\* C4: a year that extract_metadata or one of the two year helpers returns
\* is an integer from 1900 to 2100, or the field is absent
C4_YearInRange ==
  /\ metadata # None => YearOk(metadata.year)
  /\ probe.fn \in {"_extract_year", "_extract_year_from_text"} => YearOk(probe.ret)

\* The creation date holds the token 0012, which is no year, and the record
\* carries the year of the page text
C4_Witness ==
  /\ Returned
  /\ doc.info # None /\ doc.info[1].CreationDate = DateOld
  /\ doc.text = TextFull
  /\ metadata.year = Some(2024)

\* No two entries of the list are equal and every entry has three characters
\* or more
AuthorsOk(list) ==
  /\ \A i \in 1..Len(list) : \A j \in 1..Len(list) : i # j => list[i] # list[j]
  /\ \A i \in 1..Len(list) : Len(list[i]) >= 3

\* C5: the authors list of a record, and the list _parse_authors or
\* _extract_authors_from_text returns, never holds the same name twice and
\* never holds an entry shorter than three characters.
C5_AuthorsDistinct ==
  /\ metadata # None => AuthorsOk(metadata.authors)
  /\ probe.fn \in {"_parse_authors", "_extract_authors_from_text"} => AuthorsOk(probe.ret)

\* The name holds no ';', ',' or newline, and no word 'and' or '&' between two
\* whitespace characters
DelimFree(name) ==
  \A i \in 1..Len(name) :
    /\ name[i] \notin {";", ",", "\n"}
    /\ \A w \in {<<"a", "n", "d">>, <<"&">>} :
         ~ /\ i + Len(w) + 1 <= Len(name)
           /\ name[i] \in Whitespace
           /\ SubSeq(name, i + 1, i + Len(w)) = w
           /\ name[i + Len(w) + 1] \in Whitespace

\* The name holds no bracket, no '@' and no footnote marker
MarkerFree(name) ==
  \A i \in 1..Len(name) : name[i] \notin TrailingMarker \cup {"(", ")", "[", "]", "@"}

AndWords == {<<"a", "n", "d">>, <<"&">>}

EndsWith(s, sub) ==
  Len(sub) <= Len(s) /\ SubSeq(s, Len(s) - Len(sub) + 1, Len(s)) = sub

\* The trimmed name is the word 'and' or '&', or begins or ends with that word
\* set off by whitespace
EdgeWord(name) ==
  LET t == Strip(name)
  IN  \E w \in AndWords :
        \/ t = w
        \/ /\ StartsWith(t, w) /\ Len(t) > Len(w) /\ t[Len(w) + 1] \in Whitespace
        \/ /\ EndsWith(t, w) /\ Len(t) > Len(w) /\ t[Len(t) - Len(w)] \in Whitespace

\* Every name has three characters or more once trimmed and is free of
\* delimiters and markers
PlainNames(names) ==
  /\ names # <<>>
  /\ \A i \in 1..Len(names) :
       Len(Strip(names[i])) >= 3 /\ DelimFree(names[i]) /\ MarkerFree(names[i])

Trimmed(names) == [i \in 1..Len(names) |-> Strip(names[i])]

\* C6, as stated: for N names of three characters or more, free of delimiters
\* and markers, joined by ';', ',', ' and ', ' & ' or a newline,
\* _parse_authors returns exactly those N names, trimmed, in order.
C6_JoinedNamesAsStated ==
  (probe.fn = "_parse_authors" /\ PlainNames(probe.parts)) =>
    probe.ret = Trimmed(probe.parts)

\* C6, amended: the same, for names none of which is, begins with or ends
\* with the word 'and' or '&' set off by whitespace.
C6_JoinedNames ==
  (/\ probe.fn = "_parse_authors"
   /\ PlainNames(probe.parts)
   /\ \A i \in 1..Len(probe.parts) : ~EdgeWord(probe.parts[i])) =>
    probe.ret = Trimmed(probe.parts)

\* Three names joined by ' and ' and a newline came back trimmed
C6_Witness ==
  /\ probe.fn = "_parse_authors"
  /\ probe.parts = <<sJohnSmith, sJaneDoe, sJohnSmith>>
  /\ probe.arg = sJohnSmith \o <<" ", "a", "n", "d", " ">> \o sJaneDoe \o <<"\n">> \o sJohnSmith
  /\ probe.ret = <<sJohnSmith, Tail(sJaneDoe), sJohnSmith>>

\* An opening bracket with a closing bracket of its kind somewhere after it
HasGroup(name) ==
  \E i \in 1..Len(name) : \E j \in (i + 1)..Len(name) :
    \/ name[i] = "(" /\ name[j] = ")"
    \/ name[i] = "[" /\ name[j] = "]"

\* C7: every name _parse_authors returns holds no parenthesised or bracketed
\* group (e-mail address or affiliation) and ends with no footnote marker.
C7_NamesStripped ==
  probe.fn = "_parse_authors" =>
    \A i \in 1..Len(probe.ret) :
      /\ ~HasGroup(probe.ret[i])
      /\ probe.ret[i][Len(probe.ret[i])] \notin TrailingMarker

\* The lines of the text that can be a title, in order: longer than 10
\* characters once trimmed and not all upper case; only the first n lines count
SubstantialLines(text, n) ==
  LET lines == Split(text, "\n")
  IN  SelectSeq([i \in 1..Min({n, Len(lines)}) |-> Strip(lines[i])],
                LAMBDA line : Len(line) > 10 /\ ~ IsUpper(line))

\* The title of the first source that yields one: the embedded title, a
\* substantial line among the first n lines of the first page, the file name
ResolvedTitle(d, n) ==
  IF d.info # None /\ TruthyOpt(d.info[1].Title) THEN d.info[1].Title[1]
  ELSE IF d.num_pages > 0 /\ SubstantialLines(d.text, n) # <<>>
       THEN Head(SubstantialLines(d.text, n))
  ELSE Replace(Replace(SplitExtRoot(BaseName(d.pdf_path)), "_", " "), "-", " ")

EmbeddedAuthors(d) ==
  IF d.info # None /\ TruthyOpt(d.info[1].Author)
  THEN _parse_authors(d.info[1].Author[1])
  ELSE <<>>

\* C9: when the embedded author string parses to a list that is not empty,
\* the authors of the record are that list whatever the page text is; when
\* neither the string nor the page text yields a name, the list is empty.
C9_EmbeddedAuthorsFirst ==
  Returned =>
    /\ EmbeddedAuthors(doc) # <<>> => metadata.authors = EmbeddedAuthors(doc)
    /\ (/\ EmbeddedAuthors(doc) = <<>>
        /\ doc.num_pages > 0 => _extract_authors_from_text(doc.text) = <<>>) =>
         metadata.authors = <<>>

\* The page text names another author than the embedded string, and the
\* record has the two names of the string
C9_Witness ==
  /\ Returned /\ ~ Failed
  /\ doc.num_pages > 0
  /\ doc.text = TextTest
  /\ _extract_authors_from_text(doc.text) # <<>>
  /\ doc.info # None /\ doc.info[1].Author = Some(AuthorTwo)
  /\ metadata.authors = <<sJohnSmith, Tail(sJaneDoe)>>

\* The values of the whole 4-digit tokens of s that are years from 1900 to
\* 2100: four digits with no word character right before or right after
PlausibleYears(s) ==
  {Int4(SubSeq(s, i, i + 3)) : i \in
     {i \in 1..(Len(s) - 3) :
        /\ \A j \in i..(i + 3) : s[j] \in Digit
        /\ i > 1 => s[i - 1] \notin WordChar
        /\ i + 3 < Len(s) => s[i + 4] \notin WordChar
        /\ 1900 <= Int4(SubSeq(s, i, i + 3))
        /\ Int4(SubSeq(s, i, i + 3)) <= 2100}}

\* C10: _extract_year_from_text returns the largest year from 1900 to 2100
\* among the whole 4-digit tokens of the first 1000 characters of the text,
\* and None when there is none.
C10_MaxPlausibleYear ==
  probe.fn = "_extract_year_from_text" =>
    LET years == PlausibleYears(Prefix(probe.arg, 1000))
    IN  probe.ret = IF years = {} THEN None ELSE Some(Max(years))

\* The whole of s has the form 10.<4 or more digits>/<one or more non-space
\* characters>
DoiShape(s) ==
  /\ Len(s) >= 3 /\ SubSeq(s, 1, 3) = <<"1", "0", ".">>
  /\ \E k \in 8..(Len(s) - 1) :
       /\ \A j \in 4..(k - 1) : s[j] \in Digit
       /\ s[k] = "/"
       /\ \A j \in (k + 1)..Len(s) : s[j] \notin Whitespace

\* The places of the text where a substring of that form starts
DoiStarts(text) ==
  {i \in 1..Len(text) : \E j \in i..Len(text) : DoiShape(SubSeq(text, i, j))}

\* C11: _extract_doi returns None exactly when the text has no substring of
\* the form 10.<4 or more digits>/<non-space characters>; else it returns a
\* string that starts where the first such substring starts and that has
\* that form itself.
C11_DoiShape ==
  probe.fn = "_extract_doi" =>
    IF DoiStarts(probe.arg) = {} THEN probe.ret = None
    ELSE /\ probe.ret # None
         /\ StartsWith(From(probe.arg, Min(DoiStarts(probe.arg))), probe.ret[1])
         /\ DoiShape(probe.ret[1])

\* Punctuation that can follow a DOI in a text
TrailingPunctuation == {".", ",", ";", ")", ":", "!", "?", "]", "\"", "'"}

\* C12: a DOI that _extract_doi returns does not end with a punctuation
\* character.
C12_NoTrailingPunctuation ==
  (probe.fn = "_extract_doi" /\ probe.ret # None /\ probe.ret[1] # <<>>) =>
    probe.ret[1][Len(probe.ret[1])] \notin TrailingPunctuation

CamelName(line) ==
  /\ line # <<>> /\ line[1] \in Upper /\ line[Len(line)] \in Lower
  /\ \A i \in 1..Len(line) : line[i] \in Upper \cup Lower
  /\ \A i \in 1..(Len(line) - 1) : line[i] \in Upper => line[i + 1] \in Lower
  /\ Cardinality({i \in 1..Len(line) : line[i] \in Upper}) \in 2..6

\* The line with a space put in at every step from a lowercase letter to a
\* capital
Deconcatenated(line) ==
  Concat([i \in 1..Len(line) |->
            IF i > 1 /\ line[i] \in Upper /\ line[i - 1] \in Lower
            THEN <<" ", line[i]>> ELSE <<line[i]>>])

BlockedWords ==
  {<<"M","a","c","h","i","n","e">>,
   <<"L","e","a","r","n","i","n","g">>,
   <<"S","y","s","t","e","m">>,
   <<"T","r","a","c","k">>,
   <<"E","n","a","b","l","e">>,
   <<"U","r","b","a","n">>,
   <<"M","o","b","i","l","i","t","y">>,
   <<"E","n","h","a","n","c","e","d">>,
   <<"R","e","a","l">>,
   <<"T","i","m","e">>,
   <<"S","m","a","r","t">>,
   <<"T","r","a","n","s","i","t">>,
   <<"B","u","s">>}

HasBlockedWord(name) == \E w \in BlockedWords : Contains(name, w)

\* The place of the CamelCase line of the page, the first line being line 0
NameIndex == probe.parts[1] + 2 * probe.parts[2]

\* The number of other author lines at line 3 or later, before and after the
\* CamelCase line
OthersBefore ==
  Cardinality({j \in 0..(probe.parts[2] - 1) : probe.parts[1] + 2 * j >= 3})
OthersAfter ==
  Cardinality({j \in 0..(probe.parts[3] - 1) : NameIndex + 2 + 2 * j >= 3})

\* C14, as stated: a CamelCase line among the first 60 lines with a
\* Department of ... line right after it is in the list
\* _extract_authors_from_text returns, de-concatenated, wherever the pair is
\* and whatever other author lines the page has.
C14_CamelNameFoundAsStated ==
  (/\ probe.fn = "_extract_authors_from_text"
   /\ CamelName(probe.parts[4])
   /\ NameIndex < 60) =>
    \E i \in 1..Len(probe.ret) : probe.ret[i] = Deconcatenated(probe.parts[4])

\* C14, amended: the same for a line of 11 to 59 characters whose
\* de-concatenated form holds no blocked title word and is not 'Artificial
\* Intelligence', when the line is at line 3 to 59 with fewer than 10 other
\* author lines before it from line 3 on, or at line 0 to 2 with fewer than 2
\* other author lines from line 3 on.
C14_CamelNameFound ==
  (/\ probe.fn = "_extract_authors_from_text"
   /\ CamelName(probe.parts[4])
   /\ Len(probe.parts[4]) \in 11..59
   /\ ~ HasBlockedWord(Deconcatenated(probe.parts[4]))
   /\ Deconcatenated(probe.parts[4]) # <<"A","r","t","i","f","i","c","i","a","l"," ","I","n","t","e","l","l","i","g","e","n","c","e">>
   /\ \/ NameIndex \in 3..59 /\ OthersBefore < 10
      \/ NameIndex < 3 /\ OthersBefore + OthersAfter < 2) =>
    \E i \in 1..Len(probe.ret) : probe.ret[i] = Deconcatenated(probe.parts[4])

\* Nine other author lines come before the CamelCase line, and the list
\* ends with the name
C14_Witness ==
  /\ probe.fn = "_extract_authors_from_text"
  /\ probe.parts = <<3, 9, 0, <<"N","a","d","i","m","p","a","l","l","i","M","a","d","a","n","a","K","a","i","l","a","s","h","V","a","r","m","a">>>>
  /\ probe.ret = <<<<"J","o","h","n"," ","S","m","i","t","h">>, <<"N","a","d","i","m","p","a","l","l","i"," ","M","a","d","a","n","a"," ","K","a","i","l","a","s","h"," ","V","a","r","m","a">>>>

\* C15: a CamelCase line whose de-concatenated form holds one of the blocked
\* title words is never in the list _extract_authors_from_text returns,
\* whichever pass read the line.
C15_BlockedCamelRejected ==
  (/\ probe.fn = "_extract_authors_from_text"
   /\ CamelName(probe.parts[4])
   /\ HasBlockedWord(Deconcatenated(probe.parts[4]))) =>
    \A i \in 1..Len(probe.ret) : probe.ret[i] # Deconcatenated(probe.parts[4])

\* C16: under every interleaving of two invocations of extract_metadata on
\* different documents, each invocation returns the record it returns when
\* it runs alone.
C16_SameAsAlone ==
  \A t \in 1..2 :
    probe[t] # None =>
      probe[t] = Some(Alone(doc[t], [pc |-> "open", metadata |-> NewMetadata(doc[t].pdf_path),
                                     raised |-> None]))

\* Both invocations have returned, one with the embedded title of its
\* document and one with the title of its page text
C16_Witness ==
  /\ probe[1] # None /\ probe[2] # None
  /\ probe[1][1].title = Some(sEmbeddedTitle)
  /\ probe[2][1].title = Some(<<"T","i","t","l","e"," ","o","f"," ","P","a","p","e","r">>)

\* The store holds data of the user: a saved file or an index
HadData(tree) == tree.files # {} \/ tree.index

\* C17: clear_user_data returns True when the user had stored data and False
\* when the user has none (a user id never used before), and the bot says
\* 'Your library has been cleared.' in the first case and 'Your library was
\* already empty.' in the second.
C17_ClearReportsData ==
  probe.fn = "clear_user_data" =>
    /\ probe.ret.success = HadData(probe.arg)
    /\ probe.ret.said = IF HadData(probe.arg) THEN "Your library has been cleared."
                        ELSE "Your library was already empty."

\* The directory names of a filename: what stands before a "/" in it
DirNames(filename) ==
  LET parts == Split(filename, "/")
  IN  {parts[i] : i \in 1..(Len(parts) - 1)} \ {<<>>, <<".">>, <<".", ".">>}

\* The name of the file a returned path points to, under the pdfs directory
StoredName(path) == From(path, Len(PdfDir) + 2)

\* C18: for any filename save_pdf returns a path with no '../' and with no
\* directory name of the filename in it, and the bytes are in the file of
\* that path, which is a direct child of the user's pdfs directory.
C18_NoTraversal ==
  probe.fn = "save_pdf" =>
    /\ raised = None
    /\ LET path == probe.ret[1]
       IN  /\ ~ Contains(path, <<".", ".", "/">>)
           /\ \A d \in DirNames(probe.arg[1]) : ~ Contains(StoredName(path), d)
           /\ StartsWith(path, PdfDir \o <<"/">>)
           /\ ~ Contains(StoredName(path), <<"/">>)
           /\ <<StoredName(path), probe.arg[2]>> \in doc.files

\* A filename the bot accepts as a PDF: it ends in '.pdf', case-insensitively
EndsInPdf(filename) ==
  Len(filename) >= 4 /\ From(ToLower(filename), Len(filename) - 3) = <<".","p","d","f">>

\* C19: after save_pdf has succeeded with k distinct filenames that the bot
\* accepts as PDFs, get_user_pdfs returns exactly k paths, get_user_stats
\* reports pdf_count = k with total_size the sum of the sizes, and each file
\* holds exactly the bytes passed to save_pdf for it.
C19_SavedRetrievable ==
  LET saved == probe.parts.saved
      k == Cardinality(saved)
  IN  (\A p \in saved : EndsInPdf(p[1])) =>
        /\ probe.fn = "get_user_pdfs" => Cardinality(probe.ret) = k
        /\ probe.fn = "get_user_stats" =>
             /\ probe.ret.pdf_count = k
             /\ probe.ret.total_size = TotalSize(saved)
        /\ probe.fn \in {"get_user_pdfs", "get_user_stats"} =>
             \A p \in saved : <<SafeFilename(p[1]), p[2]>> \in doc.files

\* C20: after clear_user_data has returned and until the next save_pdf,
\* get_user_pdfs returns no path and get_user_stats reports pdf_count 0 and
\* has_index False, also when an index build started by an earlier upload
\* is still running in the executor thread.
C20_StaysCleared ==
  probe.parts.cleared =>
    /\ probe.fn = "get_user_pdfs" => probe.ret = {}
    /\ probe.fn = "get_user_stats" =>
         probe.ret.pdf_count = 0 /\ ~ probe.ret.has_index

\* The 'No PDFs indexed yet' notice
NoIndexNotice(reply) ==
  StartsWith(reply, <<"N","o"," ","P","D","F","s"," ","i","n","d","e","x","e","d"," ","y","e","t">>)

\* C21: for a user with no built index (never indexed, or cleared since the
\* last build) get_retriever returns None, and retrieve_passages_for_user
\* and summarize_with_citations_for_user return a 'No PDFs indexed yet'
\* notice, a string, and raise nothing.
C21_NoIndexNotice ==
  ~ probe.parts.built =>
    /\ probe.fn = "get_retriever" => probe.ret = None
    /\ probe.fn \in {"retrieve_passages_for_user", "summarize_with_citations_for_user"} =>
         NoIndexNotice(probe.ret) /\ raised = None

\* summarize_with_citations_for_user has answered a user whose store was
\* cleared and not indexed since
C21_Witness ==
  /\ probe.fn = "summarize_with_citations_for_user"
  /\ probe.parts.cleared /\ ~ probe.parts.built
  /\ doc.exists /\ NoIndexNotice(probe.ret)

\* C22: get_history with limit n returns at most n conversations, the n
\* most recently added ones in the order they were stored; without a limit
\* it returns every stored conversation in insertion order; for a user with
\* no history, or after clear_history, it returns [].  A limit below 0 is
\* read as 0.
C22_HistoryLimit ==
  probe.fn = "get_history" =>
    LET added == probe.parts
        k == Len(added)
    IN  IF probe.arg = None THEN probe.ret = added
        ELSE LET n == probe.arg[1]
                 m == IF n < 0 THEN 0 ELSE IF n > k THEN k ELSE n
             IN  /\ Len(probe.ret) <= m
                 /\ probe.ret = SubSeq(added, k - m + 1, k)

\* A string without its blanks: what de-concatenation leaves unchanged
Squeeze(str) == SelectSeq(str, LAMBDA c : c # " ")

\* The call was made on a page built around a candidate line
OnCandidatePage == probe.fn = "_extract_authors_from_text" /\ pc = "helper_returned"

\* The returned list has the name of the candidate line
CandidateReturned ==
  \E i \in 1..Len(probe.ret) : Squeeze(probe.ret[i]) = Squeeze(probe.parts.name)

\* The candidate line has one of the four surface patterns
FourPatterns ==
  {<<"N","a","d","i","m","p","a","l","l","i","M","a","d","a","n","a","K","a","i","l","a","s","h","V","a","r","m","a">>,
   <<"G",".","R","i","s","h","a","b","B","a","b","u">>,
   <<"M","r","s",".","F","a","t","i","m","a","U","n","n","i","s","a">>,
   <<"J","o","h","n"," ","S","m","i","t","h">>}

\* The line after the candidate starts with 'department'
DepartmentFollows ==
  /\ probe.parts.next # None
  /\ StartsWith(ToLower(probe.parts.next[1]), <<"d","e","p","a","r","t","m","e","n","t">>)

\* C23: the second pass runs exactly when the first pass found fewer than 2
\* authors, scans from line 0, and admits the four surface patterns of the
\* first pass: a candidate line of one of them among the first three lines,
\* followed by a 'department' line, is returned exactly when the first pass
\* found fewer than 2 authors.
C23_SecondPassPatterns ==
  (/\ OnCandidatePage
   /\ probe.parts.lead < StartLine
   /\ probe.parts.name \in FourPatterns
   /\ DepartmentFollows) =>
    (CandidateReturned <=> probe.parts.others < 2)

\* The call was made on a run of capitalized fragments before a department
\* line
OnCamelRun == OnCandidatePage /\ probe.parts.fragments > 0 /\ probe.parts.next # None

\* The run came back as a name, a blank between its fragments
RunAccepted == probe.ret = <<SplitCamel(probe.parts.name)>>

Institutional(line) ==
  \/ Contains(ToLower(line), sDepartment)
  \/ Contains(ToLower(line), sUniversity)
  \/ Contains(ToLower(line), sCollege)

\* The name r is read off line k (counted from 0) of the lines: the name
\* without its blanks starts that line without its blanks
ComesFrom(r, lines, k) ==
  /\ k + 1 <= Len(lines)
  /\ StartsWith(Squeeze(lines[k + 1]), Squeeze(r))

\* C25: every returned name comes from a line at an index below 60 that has
\* a following line, and that following line has an institutional marker.
C25_MarkerWindow ==
  OnCandidatePage =>
    LET lines == Split(probe.arg, "\n")
    IN  \A i \in 1..Len(probe.ret) :
          \E k \in 0..(ScanLines - 1) :
            /\ ComesFrom(probe.ret[i], lines, k)
            /\ k + 2 <= Len(lines)
            /\ Institutional(lines[k + 2])

\* The candidate on line 59, the last of the window, was returned on the
\* strength of a marker in capitals on line 60
C25_Witness ==
  /\ OnCandidatePage
  /\ probe.parts.lead = ScanLines - 1
  /\ probe.parts.next = Some(<<"C","i","t","y"," ","C","O","L","L","E","G","E">>)
  /\ CandidateReturned

\* The call was made on a page of many author lines
OnManyPage == OnCandidatePage /\ probe.parts.pairs > 0

\* The j-th author line of the page of the call
NthName(j) == PairName(probe.parts.name[1] = "D", probe.parts.dup, j)

\* C26: the returned list never has more than 10 names, and no candidate
\* after the tenth is added in either pass: the name of the 11th or a later
\* author line is not in the result.
C26_StopsAtTen ==
  OnManyPage =>
    /\ Len(probe.ret) <= MaxAuthors
    /\ \A j \in (MaxAuthors + 1)..probe.parts.pairs :
         NthName(j) \notin Range(probe.ret)

\* C27: every returned name has at least 4 characters, starts with an
\* upper-case letter, has a blank or a dot inside, ends with no footnote
\* symbol, holds no e-mail address and is not a blocklisted false positive.
C27_CleanNames ==
  OnCandidatePage =>
    \A i \in 1..Len(probe.ret) :
      LET name == probe.ret[i]
      IN  /\ Len(name) >= MinNameLen
          /\ name[1] \in Upper
          /\ \E k \in 2..(Len(name) - 1) : name[k] \in {" ", "."}
          /\ name[Len(name)] \notin TrailingSymbol
          /\ SubEmails(name) = name
          /\ name \notin FalsePositives

\* The chunks of the user's current PDFs: the files that build_user_index
\* lists and loads
CurrentChunks ==
  {f \in doc.files :
     /\ PdfDir \o <<"/">> \o f[1] \in get_user_pdfs(doc)
     /\ StartsWith(f[2], <<"%","P","D","F">>)}

\* C28: when build_user_index has just run, the user's vector store holds
\* each chunk of the user's current PDFs exactly once and no other chunk.
C28_ReindexReplaces ==
  (probe.fn = "build_user_index" /\ pc = "idle") =>
    /\ DOMAIN doc.chunks = CurrentChunks
    /\ \A c \in DOMAIN doc.chunks : doc.chunks[c] = 1

\* A chunk of a PDF with extracted authors was retrieved
RetrievedWithAuthors ==
  /\ pc = "helper_returned"
  /\ probe.fn \in {"retrieve_passages", "retrieve_passages_for_user"}
  /\ probe.parts.authors # <<>>

\* C29: the bib_authors value read back at retrieval is the extractor's
\* ordered list of names, and the inline citation of the chunk names the
\* last name of the first extracted author.
C29_AuthorsSurviveIndex ==
  RetrievedWithAuthors =>
    /\ probe.arg = ListValue(probe.parts.authors)
    /\ StartsWith(probe.ret, <<"(">> \o LastWord(probe.parts.authors[1]) \o <<",", " ">>)

\* The step is the author's confirming reaction on the confirmation message
\* of the waiting command, within the 30 seconds
ConfirmedStep ==
  /\ pc = "waiting"
  /\ metadata.elapsed < ClearTimeout
  /\ probe'.arg = <<[emoji |-> "yes", message |-> metadata.confirm_msg], "author">>

\* C30: the user's PDFs and index change in the !clear flow, also when it
\* is reached through !general, only by the step in which the author of the
\* command adds the confirming reaction to that command's confirmation
\* message within 30 seconds; any other reaction and the timeout leave them
\* unchanged.
C30_ClearOnlyConfirmed == [][doc' # doc => ConfirmedStep]_vars

\* A library with a PDF was cleared on the author's confirmation of a
\* command that !general routed to !clear
C30_Witness ==
  /\ probe.fn = "general_query"
  /\ probe.ret = "Your library has been cleared."
  /\ probe.parts.files # {}
  /\ probe.arg[2] = "author"
  /\ doc.files = {}

=============================================================================
